---------------------------- MODULE Spec2Model ----------------------------
(***************************************************************************)
(* A model of LOCAL_BOORU/image_booru.py: the prompt-text normalizer       *)
(* (parse_positive_prompt, clean_prompt_text, tokenize_prompt), the JSON   *)
(* cache (load_cache, save_cache), the scanner (load_images_and_tags,      *)
(* parse_and_store_tags) and the tag filter of main().                     *)
(*                                                                         *)
(* Text is a sequence of one-character strings, so that the regular        *)
(* expressions and the str methods of the source are computed character by *)
(* character; so is the text json.dump writes into CACHE_FILE and          *)
(* json.load reads back.                                                   *)
(***************************************************************************)
EXTENDS Integers, Sequences, FiniteSets, TLC

VARIABLES
    \* ---- the world outside the process
    fs,            \* path -> NoFile or [mtime, meta]: the .png files on disk
    cacheFile,     \* CACHE_FILE on disk: [kind, data]
    \* ---- the streamlit process
    pc,            \* where the current call of load_images_and_tags stands
    root_dir,      \* its argument
    cache_dict,    \* its local cache_dict
    todo,          \* what os.walk has still to yield
    images_data,   \* its local images_data
    all_tags,      \* its local all_tags
    result,        \* what the last call returned, and how
    selected_tags, \* main(): the tags chosen in the multiselect
    filtered_images, \* main(): the images the tag filter kept
    \* ---- observation of the run (not program state)
    extracted,     \* paths parse_and_store_tags was called for, in the current call
    diag,          \* paths named by the "Error reading" lines, in the current call
    log,           \* what changed on disk since the last scan returned
    negCached,     \* path -> the mtime its failed extraction is cached under, or 0
    lastScan,      \* what the last scan (a run of the body) returned
    before,        \* cacheFile, log, negCached and lastScan when the scan started
    saves,         \* how often the current call has called save_cache
    \* ---- the text pipeline taken alone (lines 163-167)
    metadata_text, positive_part, cleaned_str, tags, step,
    \* ---- save_cache taken alone, write by write (lines 95-96)
    cache_data,    \* its argument
    savePc,        \* where the call stands
    written,       \* the text that has reached CACHE_FILE since it was opened
    loaded,        \* what a load_cache of another reader returned, and when
    \* ---- the walk of lines 117-120 taken alone, over a directory tree
    tree,          \* the files on disk: a set of [dir, name]
    walkPc,        \* where the loop stands
    walked,        \* the full paths that passed line 119, in the order met
    walk_images,   \* the paths of images_data
    walk_keys,     \* the keys of cache_dict
    \* ---- the LoRA browser (LoraBrowser.py): its favorites
    favorites_set, \* the global favorites_set
    favFile,       \* FAVORITES_JSON on disk: [exists, text]
    thr,           \* server thread -> where its toggle request stands
    \* ---- observation of the favorites (not program state)
    fav0,          \* favorites_set when the process started
    parity,        \* name -> the toggle requests for it since then, modulo 2
    favSaved,      \* the set the last save_favorites that returned was given
    favLoad,       \* what the load_favorites of line 46 did, and on which file
    \* ---- the LoRA browser: the page and the requests for files
    currentPath,   \* the page's currentPath (inline script, lines 338-351)
    req,           \* the last request: [api, path, query]
    resp,          \* its answer: [status, files, served]
    \* ---- the prompt history of the Krita plugin (widget.py)
    hist_data,     \* PromptHistoryManager._data: [prompts, favorites]
    histFile,      \* the history file on disk: [exists, text]
    \* ---- observation of the history (not program state)
    histOp,        \* the last operation, and _data and the file before it
    histChanged    \* an operation has changed _data since the file was found

scanVars == <<fs, cacheFile, pc, root_dir, cache_dict, todo, images_data,
              all_tags, result, selected_tags, filtered_images, extracted, diag,
              log, negCached, lastScan, before, saves>>
textVars == <<metadata_text, positive_part, cleaned_str, tags, step>>
saveVars == <<cache_data, savePc, written, loaded>>
walkVars == <<tree, walkPc, walked, walk_images, walk_keys>>
favVars == <<favorites_set, favFile, thr, fav0, parity, favSaved, favLoad>>
browseVars == <<currentPath, req, resp>>
histVars == <<hist_data, histFile, histOp, histChanged>>
otherVars == <<favVars, browseVars, histVars>>
restVars == <<walkVars, otherVars>>
vars == <<scanVars, textVars, saveVars, restVars>>

---------------------------------------------------------------------------
(* Characters and strings *)

Str16(a, b, c, d, e, f, g, h, i, j, k, l, m, n, o, p) ==
    <<a, b, c, d, e, f, g, h, i, j, k, l, m, n, o, p>>

\* the literal of the pattern at line 24
MARKER == Str16("N","e","g","a","t","i","v","e"," ","p","r","o","m","p","t",":")

UpperCase == <<"A","B","C","D","E","F","G","H","I","J","K","L","M",
               "N","O","P","Q","R","S","T","U","V","W","X","Y","Z">>
LowerCase == <<"a","b","c","d","e","f","g","h","i","j","k","l","m",
               "n","o","p","q","r","s","t","u","v","w","x","y","z">>

\* the characters of the model in code-point order (what sorted() compares)
CodePoints == <<"\n", " ", "(", ")", ",", ".", "/", "0", "1", "2", "6", ":">>
              \o UpperCase \o LowerCase

Ord(c) == CHOOSE i \in 1..Len(CodePoints) : CodePoints[i] = c

\* str.lower() on one character
LowerChar(c) ==
    IF \E i \in 1..26 : UpperCase[i] = c
    THEN LowerCase[CHOOSE i \in 1..26 : UpperCase[i] = c]
    ELSE c

lower(s) == [i \in 1..Len(s) |-> LowerChar(s[i])]

IsSpace(c) == c \in {" ", "\n"}
IsDigit(c) == c \in {"0", "1", "2", "6"}

RECURSIVE lstrip(_)
lstrip(s) == IF s # <<>> /\ IsSpace(Head(s)) THEN lstrip(Tail(s)) ELSE s

RECURSIVE rstrip(_)
rstrip(s) ==
    IF s # <<>> /\ IsSpace(s[Len(s)]) THEN rstrip(SubSeq(s, 1, Len(s) - 1)) ELSE s

\* str.strip()
strip(s) == rstrip(lstrip(s))

SetMax(S) == CHOOSE x \in S : \A y \in S : y <= x
SetMin(S) == CHOOSE x \in S : \A y \in S : x <= y

---------------------------------------------------------------------------
(* Text Normalizer *)

\* "Negative prompt:" matches at position i of s under re.IGNORECASE
MarkerAt(s, i) ==
    /\ i + Len(MARKER) - 1 <= Len(s)
    /\ \A k \in 1..Len(MARKER) : LowerChar(s[i + k - 1]) = LowerChar(MARKER[k])

MarkerStarts(s) == {i \in 1..Len(s) : MarkerAt(s, i)}

\* re.search(r"(.*)Negative prompt:", text, re.IGNORECASE | re.DOTALL): the
\* search starts at position 0, where the greedy (.*) first takes the whole
\* text and gives characters back until the literal matches, so group(1)
\* ends where the LAST occurrence of the marker starts.
parse_positive_prompt(text) ==
    IF MarkerStarts(text) # {}
    THEN strip(SubSeq(text, 1, SetMax(MarkerStarts(text)) - 1))
    ELSE strip(text)

\* re.sub(r"[()]", "", prompt)
RemoveParens(s) == SelectSeq(s, LAMBDA c : c \notin {"(", ")"})

\* the number of digits of s from position i on
RECURSIVE DigitRun(_, _)
DigitRun(s, i) ==
    IF i <= Len(s) /\ IsDigit(s[i]) THEN 1 + DigitRun(s, i + 1) ELSE 0

\* the length of the match of :[0-9]+(\.[0-9]+)? at position i of s, 0 if none
WeightLen(s, i) ==
    IF s[i] # ":" \/ DigitRun(s, i + 1) = 0 THEN 0
    ELSE LET n == DigitRun(s, i + 1)
             j == i + 1 + n
         IN  IF j <= Len(s) /\ s[j] = "." /\ DigitRun(s, j + 1) > 0
             THEN 1 + n + 1 + DigitRun(s, j + 1)
             ELSE 1 + n

\* re.sub(r':[0-9]+(\.[0-9]+)?', '', s): leftmost matches, left to right
RECURSIVE RemoveWeights(_, _)
RemoveWeights(s, i) ==
    IF i > Len(s) THEN <<>>
    ELSE IF WeightLen(s, i) > 0 THEN RemoveWeights(s, i + WeightLen(s, i))
    ELSE <<s[i]>> \o RemoveWeights(s, i + 1)

\* the two substitutions in the other order
clean_weights_first(prompt) == RemoveParens(RemoveWeights(prompt, 1))

\* lines 49 and 54
clean_prompt_text(prompt) == RemoveWeights(RemoveParens(prompt), 1)

\* str.split(","): the pieces between the commas, empty ones included
RECURSIVE Split(_, _)
Split(s, piece) ==
    IF s = <<>> THEN <<piece>>
    ELSE IF Head(s) = "," THEN <<piece>> \o Split(Tail(s), <<>>)
    ELSE Split(Tail(s), Append(piece, Head(s)))

\* the pieces stripped but not lower-cased
tokenize_no_lower(prompt) ==
    LET raw_tags == Split(prompt, <<>>)
    IN  {strip(raw_tags[i]) :
             i \in {k \in 1..Len(raw_tags) : strip(raw_tags[k]) # <<>>}}

\* tokenize_prompt: the set the list comprehension is turned into at line 65
tokenize_prompt(prompt) ==
    LET raw_tags == Split(prompt, <<>>)
    IN  {lower(strip(raw_tags[i])) :
             i \in {k \in 1..Len(raw_tags) : strip(raw_tags[k]) # <<>>}}

\* lines 163-167
extract_tags(text) == tokenize_prompt(clean_prompt_text(parse_positive_prompt(text)))

\* list(set(tags)): the orders a set can be listed in
ListsOf(S) ==
    {l \in [1..Cardinality(S) -> S] : \A i, j \in 1..Cardinality(S) : l[i] = l[j] => i = j}


---------------------------------------------------------------------------
(* The text pipeline taken alone: SpecText *)

MaxSegs == 3

SegCased == Str16("n","E","G","A","T","I","V","E"," ","P","R","O","M","P","T",":")

\* the pieces the input texts are built from
Segments ==
    { MARKER, SegCased, <<"a">>, <<" ", "B", " ">>, <<",">>,
      <<"(", "c", ":", "1", ".", "6", ")">>, <<":", "2">>, <<"\n">> }

RECURSIVE Texts(_)
Texts(n) ==
    IF n = 0 THEN {<<>>}
    ELSE Texts(n - 1) \cup {t \o s : t \in Texts(n - 1), s \in Segments}

\* tag texts (no comma, colon or parenthesis) and numeric weights
TagTexts ==
    { <<"c">>, <<" ", "B", " ">>, <<"a", " ", "b">>, <<"v", "2">>, <<"A", ".", "2">> }
Weights ==
    { <<"1">>, <<"1", ".", "6">>, <<"2", ".", "0">>, <<"1", "2">>, <<"0", ".", "2", "6">> }

\* "(t:w)", and "t:(w)" where the weight shows only once the parentheses
\* are gone
Weighted(t, w) == <<"(">> \o t \o <<":">> \o w \o <<")">>
WeightInside(t, w) == t \o <<":", "(">> \o w \o <<")">>

\* "(character:1.6), (blue sky)" and "a, A, a "
TextCharacter ==
    <<"(", "c", "h", "a", "r", "a", "c", "t", "e", "r", ":", "1", ".", "6", ")", ",", " ",
      "(", "b", "l", "u", "e", " ", "s", "k", "y", ")">>
TextAAa == <<"a", ",", " ", "A", ",", " ", "a", " ">>

MoreTexts ==
    {Weighted(t, w) : t \in TagTexts, w \in Weights}
        \cup {WeightInside(t, w) : t \in TagTexts, w \in Weights}
        \cup {TextCharacter, TextAAa}

TextOff ==
    /\ metadata_text = <<>> /\ positive_part = <<>> /\ cleaned_str = <<>>
    /\ tags = {} /\ step = "off"

\* line 163
ParsePositive ==
    /\ step = "text"
    /\ positive_part' = parse_positive_prompt(metadata_text)
    /\ step' = "positive"
    /\ UNCHANGED <<metadata_text, cleaned_str, tags>>
    /\ UNCHANGED <<scanVars, saveVars, restVars>>

\* line 165
Clean ==
    /\ step = "positive"
    /\ cleaned_str' = clean_prompt_text(positive_part)
    /\ step' = "cleaned"
    /\ UNCHANGED <<metadata_text, positive_part, tags>>
    /\ UNCHANGED <<scanVars, saveVars, restVars>>

\* line 167
Tokenize ==
    /\ step = "cleaned"
    /\ tags' = tokenize_prompt(cleaned_str)
    /\ step' = "tags"
    /\ UNCHANGED <<metadata_text, positive_part, cleaned_str>>
    /\ UNCHANGED <<scanVars, saveVars, restVars>>

---------------------------------------------------------------------------
(* The filesystem *)

MaxTime == 2

\* ROOT_IMAGE_DIR candidates: a directory with images, and a directory that
\* does not exist (the placeholder of line 13 is one)
Roots == {"pics", "nodir"}
DirExists(r) == r = "pics"

Paths == {"pics/a.png", "pics/b.png"}
RootOf(p) == "pics"

\* what a PNG file can hold: m1 carries two text chunks, bad cannot be read
Metas == {"m1", "bad"}
NoFile == [mtime |-> 0, meta |-> "none"]
Files == [mtime : 1..MaxTime, meta : Metas]

Readable(f) == f.meta = "m1"

\* img_png.text.values()
TextValues(meta) ==
    << <<"(","s","k","y",":","1",".","2",")",","," ","C","a","t">>,
       MARKER \o <<" ","d","o","g">> >>

\* lines 155-160: metadata_text += val + "\n" for every value
RECURSIVE JoinValues(_)
JoinValues(vals) ==
    IF vals = <<>> THEN <<>> ELSE Head(vals) \o <<"\n">> \o JoinValues(Tail(vals))

\* os.walk(root_dir) filtered at line 119, as full paths in listing order;
\* a directory that does not exist yields nothing (os.walk ignores the error
\* of the listing, its onerror being None)
PathOrder == <<"pics/a.png", "pics/b.png">>

os_walk(r) ==
    IF DirExists(r)
    THEN SelectSeq(PathOrder, LAMBDA p : RootOf(p) = r /\ fs[p] # NoFile)
    ELSE <<>>

---------------------------------------------------------------------------
(* Cache Store *)

\* CACHE_FILE is missing, or holds JSON text (kind "json", the mapping in
\* data), or holds text json.load cannot parse (kind "corrupt", data being
\* the entries a reader could still make out in it)
NoEntries == [p \in {} |-> NoFile]
MissingFile == [kind |-> "missing", data |-> NoEntries]
Damaged(f) == [kind |-> "corrupt", data |-> f.data]

\* ---- json.dump(cache_data, f, ensure_ascii=False, indent=2), character by
\* ---- character.  A path is written as one symbol: the paths of the model
\* ---- hold no character that json escapes.

DigitChars == <<"0", "1", "2", "3", "4", "5", "6", "7", "8", "9">>

\* the decimal digits of a natural number
RECURSIVE DigitsOf(_)
DigitsOf(n) ==
    IF n < 10 THEN <<DigitChars[n + 1]>>
    ELSE DigitsOf(n \div 10) \o <<DigitChars[(n % 10) + 1]>>

\* float.__repr__ of a modification time of t whole ticks
EncodeNumber(t) == DigitsOf(t) \o <<".", "0">>

\* the escapes of the characters of the model that JSON does not take as
\* they are
EscapeChar(c) ==
    IF c = "\"" THEN <<"\\", "\"">>
    ELSE IF c = "\\" THEN <<"\\", "\\">>
    ELSE IF c = "\n" THEN <<"\\", "n">>
    ELSE <<c>>

RECURSIVE Escaped(_)
Escaped(s) == IF s = <<>> THEN <<>> ELSE EscapeChar(Head(s)) \o Escaped(Tail(s))

\* a str written without its escapes
EncodeString_raw(s) == <<"\"">> \o s \o <<"\"">>

EncodeString(s) == <<"\"">> \o Escaped(s) \o <<"\"">>

\* the line break and the indentation of level n (indent=2)
Indent(n) == <<"\n">> \o [i \in 1..(2 * n) |-> " "]

RECURSIVE EncodeItems(_, _)
EncodeItems(l, n) ==
    IF l = <<>> THEN <<>>
    ELSE Indent(n) \o EncodeString(Head(l))
         \o (IF Tail(l) = <<>> THEN <<>> ELSE <<",">>) \o EncodeItems(Tail(l), n)

EncodeList(l, n) ==
    IF l = <<>> THEN <<"[", "]">>
    ELSE <<"[">> \o EncodeItems(l, n + 1) \o Indent(n) \o <<"]">>

TagsKey == <<"t", "a", "g", "s">>
MtimeKey == <<"m", "t", "i", "m", "e">>

\* {"tags": [...], "mtime": ...} (lines 173-176 build the dict in this order)
EncodeEntry(e, n) ==
    <<"{">> \o Indent(n + 1) \o EncodeString(TagsKey) \o <<":", " ">>
            \o EncodeList(e.tags, n + 1) \o <<",">>
            \o Indent(n + 1) \o EncodeString(MtimeKey) \o <<":", " ">>
            \o EncodeNumber(e.mtime)
            \o Indent(n) \o <<"}">>

RECURSIVE EncodeMembers(_, _)
EncodeMembers(keys, d) ==
    IF keys = <<>> THEN <<>>
    ELSE Indent(1) \o <<"\"", Head(keys), "\"", ":", " ">>
         \o EncodeEntry(d[Head(keys)], 1)
         \o (IF Tail(keys) = <<>> THEN <<>> ELSE <<",">>)
         \o EncodeMembers(Tail(keys), d)

\* the text json.dump writes for the dict d, one character after the other
json_dump(d) ==
    LET keys == SelectSeq(PathOrder, LAMBDA p : p \in DOMAIN d)
    IN  IF keys = <<>> THEN <<"{", "}">>
        ELSE <<"{">> \o EncodeMembers(keys, d) \o Indent(0) \o <<"}">>

\* ---- json.load(f): of the JSON grammar, the part a dump of an Index is
\* ---- written in.  A parser returns [ok, pos, value]: whether it found its
\* ---- value at position i, the position after it, and the value.

Fail == [ok |-> FALSE, pos |-> 0, value |-> <<>>]
Found(p, v) == [ok |-> TRUE, pos |-> p, value |-> v]

\* the first position from i on that holds no white space; 0 stays 0
RECURSIVE SkipWs(_, _)
SkipWs(s, i) ==
    IF i = 0 THEN 0
    ELSE IF i <= Len(s) /\ s[i] \in {" ", "\n"} THEN SkipWs(s, i + 1)
    ELSE i

\* the position after the literal lit when it stands at position k, 0 if it
\* does not
LitAt(s, k, lit) ==
    IF /\ k > 0
       /\ k + Len(lit) - 1 <= Len(s)
       /\ \A j \in 1..Len(lit) : s[k + j - 1] = lit[j]
    THEN k + Len(lit)
    ELSE 0

\* the same after the white space from i on
Lit(s, i, lit) == LitAt(s, SkipWs(s, i), lit)

RECURSIVE StringBody(_, _, _)
StringBody(s, i, acc) ==
    IF i > Len(s) THEN Fail
    ELSE IF s[i] = "\"" THEN Found(i + 1, acc)
    ELSE IF s[i] = "\\"
         THEN IF i + 1 > Len(s) THEN Fail
              ELSE IF s[i + 1] = "n" THEN StringBody(s, i + 2, Append(acc, "\n"))
              ELSE IF s[i + 1] \in {"\"", "\\"}
                   THEN StringBody(s, i + 2, Append(acc, s[i + 1]))
              ELSE Fail
    ELSE IF s[i] = "\n" THEN Fail    \* a control character inside a string
    ELSE StringBody(s, i + 1, Append(acc, s[i]))

ParseString(s, i) ==
    IF i < 1 \/ i > Len(s) \/ s[i] # "\"" THEN Fail ELSE StringBody(s, i + 1, <<>>)

JsonDigit(c) == \E d \in 1..10 : DigitChars[d] = c
DigitValue(c) == (CHOOSE d \in 1..10 : DigitChars[d] = c) - 1

RECURSIVE JsonDigits(_, _)
JsonDigits(s, i) ==
    IF i >= 1 /\ i <= Len(s) /\ JsonDigit(s[i]) THEN 1 + JsonDigits(s, i + 1) ELSE 0

\* the value of the n digits of s from position i on
RECURSIVE IntValue(_, _, _)
IntValue(s, i, n) ==
    IF n = 0 THEN 0
    ELSE 10 * IntValue(s, i, n - 1) + DigitValue(s[i + n - 1])

\* the fraction of m digits at position j + 1 has to be zero for the value
\* to be a whole number of ticks
NumberFraction(s, j, v, m) ==
    IF m = 0 THEN Found(j, v)
    ELSE IF IntValue(s, j + 1, m) = 0 THEN Found(j + 1 + m, v)
    ELSE Fail

NumberWhole(s, i, n) ==
    IF n = 0 THEN Fail
    ELSE NumberFraction(s, i + n, IntValue(s, i, n),
                        IF i + n <= Len(s) /\ s[i + n] = "."
                        THEN JsonDigits(s, i + n + 1) ELSE 0)

\* a number: digits, and perhaps a point and digits
ParseNumber(s, i) == NumberWhole(s, i, JsonDigits(s, i))

RECURSIVE ListItems(_, _, _)
ListSep(s, acc, more, end) ==
    IF more > 0 THEN ListItems(s, more, acc)
    ELSE IF end > 0 THEN Found(end, acc)
    ELSE Fail

ListItem(s, acc, r) ==
    IF ~r.ok THEN Fail
    ELSE ListSep(s, Append(acc, r.value), Lit(s, r.pos, <<",">>), Lit(s, r.pos, <<"]">>))

\* string, string, ... ]
ListItems(s, i, acc) == ListItem(s, acc, ParseString(s, SkipWs(s, i)))

ListBody(s, open, empty) ==
    IF open = 0 THEN Fail
    ELSE IF empty > 0 THEN Found(empty, <<>>)
    ELSE ListItems(s, open, <<>>)

\* a list of strings from i on
ParseList(s, i) == ListBody(s, Lit(s, i, <<"[">>), Lit(s, Lit(s, i, <<"[">>), <<"]">>))

EntryClose(l, n, close) ==
    IF close = 0 THEN Fail ELSE Found(close, [tags |-> l.value, mtime |-> n.value])

EntryNumber(s, l, n) ==
    IF ~n.ok THEN Fail ELSE EntryClose(l, n, Lit(s, n.pos, <<"}">>))

EntryMtime(s, l, colon) ==
    IF colon = 0 THEN Fail ELSE EntryNumber(s, l, ParseNumber(s, SkipWs(s, colon)))

EntryList(s, l) ==
    IF ~l.ok THEN Fail
    ELSE EntryMtime(s, l, Lit(s, Lit(s, Lit(s, l.pos, <<",">>),
                                     EncodeString(MtimeKey)), <<":">>))

EntryTags(s, colon) ==
    IF colon = 0 THEN Fail ELSE EntryList(s, ParseList(s, colon))

\* {"tags": list, "mtime": number} from i on
ParseEntry(s, i) ==
    EntryTags(s, Lit(s, Lit(s, Lit(s, i, <<"{">>), EncodeString(TagsKey)), <<":">>))

\* the dict acc with key standing for entry e: a key met again replaces the
\* entry it had
Put(acc, key, e) ==
    [q \in DOMAIN acc \cup {key} |-> IF q = key THEN e ELSE acc[q]]

RECURSIVE Members(_, _, _)
MemberSep(s, acc, more, end) ==
    IF more > 0 THEN Members(s, more, acc)
    ELSE IF end > 0 THEN Found(end, acc)
    ELSE Fail

MemberPut(s, acc, key, e) ==
    IF ~e.ok THEN Fail
    ELSE MemberSep(s, Put(acc, key, e.value), Lit(s, e.pos, <<",">>), Lit(s, e.pos, <<"}">>))

MemberEntry(s, acc, key, colon) ==
    IF colon = 0 THEN Fail ELSE MemberPut(s, acc, key, ParseEntry(s, colon))

MemberKey(s, acc, k) ==
    IF ~k.ok \/ Len(k.value) # 1 THEN Fail
    ELSE MemberEntry(s, acc, k.value[1], Lit(s, k.pos, <<":">>))

\* "key": entry, ... }
Members(s, i, acc) == MemberKey(s, acc, ParseString(s, SkipWs(s, i)))

ObjectBody(s, open, empty) ==
    IF open = 0 THEN Fail
    ELSE IF empty > 0 THEN Found(empty, NoEntries)
    ELSE Members(s, open, NoEntries)

\* the value has to be the whole text
Whole(s, r) == IF r.ok /\ SkipWs(s, r.pos) > Len(s) THEN r ELSE Fail

\* json.load: the dict the text stands for, ok being FALSE where json.load
\* raises
json_load(s) ==
    Whole(s, ObjectBody(s, Lit(s, 1, <<"{">>), Lit(s, Lit(s, 1, <<"{">>), <<"}">>)))

\* CACHE_FILE when a json.load of it gives r
FileOf(r) ==
    IF r.ok THEN [kind |-> "json", data |-> r.value]
    ELSE [kind |-> "corrupt", data |-> NoEntries]

\* CACHE_FILE when it holds the characters of text
OnDisk(text) == FileOf(json_load(text))

\* load_cache without its try: the error of json.load leaves the call
load_cache_no_try ==
    IF cacheFile.kind = "missing" THEN [raised |-> FALSE, value |-> NoEntries]
    ELSE IF cacheFile.kind = "corrupt" THEN [raised |-> TRUE, value |-> NoEntries]
    ELSE [raised |-> FALSE, value |-> cacheFile.data]

\* load_cache taking from a damaged file the entries that can be made out
load_cache_salvage ==
    IF cacheFile.kind = "missing" THEN [raised |-> FALSE, value |-> NoEntries]
    ELSE [raised |-> FALSE, value |-> cacheFile.data]

\* lines 83-89: what the call gives back, and whether it raised.  json.load
\* raises on text it cannot parse, inside the try whose bare except returns {}.
load_cache ==
    IF cacheFile.kind = "missing" THEN [raised |-> FALSE, value |-> NoEntries]
    ELSE IF cacheFile.kind = "corrupt" THEN [raised |-> FALSE, value |-> NoEntries]
    ELSE [raised |-> FALSE, value |-> cacheFile.data]

\* line 87: json.load gives back the value the text holds, whatever its
\* shape.  A value that is no mapping is written [shape |-> ...]; an entry
\* lacking "tags" is a record without that field, and an entry whose "mtime"
\* is a string holds it in the field mtime_str.
ListCache == [shape |-> "list"]
NumberCache == [shape |-> "number"]
NoTagsEntry(t) == [mtime |-> t]
TextMtimeEntry == [tags |-> <<>>, mtime_str |-> <<"x">>]
IsDict(cache) == "shape" \notin DOMAIN cache

\* a mapping from paths to entries of the two fields
WellShaped(d) ==
    /\ IsDict(d)
    /\ \A q \in DOMAIN d : DOMAIN d[q] = {"tags", "mtime"}

\* save_cache dropping the entries whose file is gone
save_cache_pruned(d) ==
    OnDisk(json_dump([q \in {x \in DOMAIN d : fs[x] # NoFile} |-> d[q]]))

\* lines 95-96, from the open to the close of the with block: CACHE_FILE
\* holds the text json.dump wrote.  json.dump writes any value json.load gave
\* back and reading that text gives the value again; the text itself is
\* modelled for the mappings of the right shape.
save_cache(d) ==
    IF WellShaped(d) THEN OnDisk(json_dump(d)) ELSE [kind |-> "json", data |-> d]

---------------------------------------------------------------------------
(* Scanner *)

\* what a call handed to main(): how is "ran" (the body ran and returned),
\* "raised" (an exception left the call, error saying where it came from) or
\* "none" (no call yet)
NoResult == [how |-> "none", root |-> "none", images |-> <<>>, all_tags |-> <<>>,
             error |-> "none"]
Raised(r, where) == [NoResult EXCEPT !.how = "raised", !.root = r, !.error = where]

\* a < b for str
RECURSIVE StrLess(_, _)
StrLess(a, b) ==
    IF b = <<>> THEN FALSE
    ELSE IF a = <<>> THEN TRUE
    ELSE IF Head(a) # Head(b) THEN Ord(Head(a)) < Ord(Head(b))
    ELSE StrLess(Tail(a), Tail(b))

\* list(S) in descending order
sorted_descending(S) ==
    CHOOSE l \in ListsOf(S) : \A i, j \in 1..Len(l) : i < j => StrLess(l[j], l[i])

\* sorted(list(S))
sorted(S) ==
    CHOOSE l \in ListsOf(S) : \A i, j \in 1..Len(l) : i < j => StrLess(l[i], l[j])

\* the elements of a list
Elems(l) == {l[i] : i \in 1..Len(l)}

\* the check of line 127 left out: any entry of full_path is used
CacheHit_any_entry(cache, full_path, mtime) == full_path \in DOMAIN cache

\* the entry never used: every file is parsed again
CacheHit_never(cache, full_path, mtime) == FALSE

\* lines 124-128 for a value that cannot be looked up: "in" raises TypeError
\* on a number and is False on a list that does not hold the path (line 124),
\* a string minus the float mtime raises TypeError (line 127), and the entry
\* of the same mtime without "tags" raises KeyError (line 128)
LookupRaises(cache, full_path, mtime) ==
    IF cache = NumberCache THEN TRUE
    ELSE IF full_path \notin DOMAIN cache THEN FALSE
    ELSE IF "mtime_str" \in DOMAIN cache[full_path] THEN TRUE
    ELSE /\ cache[full_path].mtime = mtime
         /\ "tags" \notin DOMAIN cache[full_path]

\* the entry is used unless the file is newer than it
CacheHit_not_newer(cache, full_path, mtime) ==
    /\ full_path \in DOMAIN cache
    /\ cache[full_path].mtime >= mtime

\* lines 124-127: the entry of full_path can be used as it is.  The
\* modification times of the model are whole ticks, so abs(...) < 1e-9 is
\* equality.
CacheHit(cache, full_path, mtime) ==
    /\ full_path \in DOMAIN cache
    /\ cache[full_path].mtime = mtime

\* lines 173-176 run only when tags were found
Store_if_tags(cache, full_path, t, mtime) ==
    IF t = <<>> THEN cache
    ELSE [q \in DOMAIN cache \cup {full_path} |->
             IF q = full_path THEN [tags |-> t, mtime |-> mtime] ELSE cache[q]]

\* the entry of a path that has one keeps the mtime it had
Store_old_mtime(cache, full_path, t, mtime) ==
    [q \in DOMAIN cache \cup {full_path} |->
        IF q # full_path THEN cache[q]
        ELSE IF q \in DOMAIN cache THEN [tags |-> t, mtime |-> cache[q].mtime]
        ELSE [tags |-> t, mtime |-> mtime]]

\* lines 173-176
Store(cache, full_path, t, mtime) ==
    [q \in DOMAIN cache \cup {full_path} |->
        IF q = full_path THEN [tags |-> t, mtime |-> mtime] ELSE cache[q]]

\* parse_and_store_tags without its try: the error of reading the file
\* leaves the call
parse_and_store_tags_no_try(full_path, mtime, cache) ==
    IF Readable(fs[full_path])
    THEN {[tags |-> t, failed |-> FALSE, raised |-> FALSE,
           cache |-> Store(cache, full_path, t, mtime)] :
             t \in ListsOf(extract_tags(JoinValues(TextValues(fs[full_path].meta))))}
    ELSE {[tags |-> <<>>, failed |-> TRUE, raised |-> TRUE, cache |-> cache]}

\* parse_and_store_tags (lines 153-177): what it can return and what it does
\* to cache_dict.  Reading a file that cannot be read raises inside the try,
\* and the handler prints the path and takes no tags; list(set(tags)) can
\* list the tags in any order.  The assignment of line 173 is outside the
\* try: on a cache_dict that is a list it raises TypeError, which leaves the
\* call.
parse_and_store_tags(full_path, mtime, cache) ==
    IF ~IsDict(cache)
    THEN {[tags |-> <<>>, failed |-> ~Readable(fs[full_path]), raised |-> TRUE,
           cache |-> cache]}
    ELSE IF Readable(fs[full_path])
    THEN {[tags |-> t, failed |-> FALSE, raised |-> FALSE,
           cache |-> Store(cache, full_path, t, mtime)] :
             t \in ListsOf(extract_tags(JoinValues(TextValues(fs[full_path].meta))))}
    ELSE {[tags |-> <<>>, failed |-> TRUE, raised |-> FALSE,
           cache |-> Store(cache, full_path, <<>>, mtime)]}

\* an image without tags is left out of images_data
AppendImage_if_tags(images, full_path, t) ==
    IF t = <<>> THEN images ELSE Append(images, [path |-> full_path, tags |-> t])

\* lines 136-139
AppendImage(images, full_path, t) == Append(images, [path |-> full_path, tags |-> t])

NoBefore == [cacheFile |-> MissingFile, log |-> <<>>,
             negCached |-> [p \in Paths |-> 0], lastScan |-> NoResult]

\* the locals of a run of main() that has ended
LocalsDead ==
    /\ root_dir' = "none"
    /\ cache_dict' = NoEntries
    /\ todo' = <<>>
    /\ images_data' = <<>>
    /\ all_tags' = {}
    /\ selected_tags' = {}
    /\ filtered_images' = <<>>
    /\ result' = NoResult
    /\ extracted' = {}
    /\ diag' = <<>>
    /\ before' = NoBefore
    /\ saves' = 0

Returned == pc \in {"idle", "done", "raised"}

\* lines 102-117: a call that runs the body.  st.cache_data (line 101) keeps
\* the value a call returned and answers a later call of the same process
\* with the same root_dir from that store: such a call runs nothing of the
\* body, looks at no file and writes nothing, so it is no step of the model.
\* The calls modelled are those that scan: in one process the first for a
\* root_dir, and the next scan of that root_dir is a later process's.
ScanCall(r) ==
    /\ Returned
    /\ root_dir' = r
    /\ images_data' = <<>>
    /\ all_tags' = {}
    /\ extracted' = {}
    /\ diag' = <<>>
    /\ saves' = 0
    /\ selected_tags' = {}
    /\ filtered_images' = <<>>
    /\ before' = [cacheFile |-> cacheFile, log |-> log, negCached |-> negCached,
                  lastScan |-> lastScan]
    /\ IF load_cache.raised
       THEN /\ pc' = "raised"
            /\ result' = Raised(r, "load")
            /\ cache_dict' = NoEntries
            /\ todo' = <<>>
       ELSE /\ pc' = "walk"
            /\ result' = NoResult
            /\ cache_dict' = load_cache.value
            /\ todo' = os_walk(r)
    /\ UNCHANGED <<fs, cacheFile, log, negCached, lastScan>>
    /\ UNCHANGED <<textVars, saveVars, restVars>>

\* an exception leaves load_images_and_tags in the middle of the walk: the
\* call ends there, line 144 is not reached.  The error names the line the
\* exception came from: "getmtime" (121), "lookup" (124-128), "extract" (the
\* body of the try of 153-167), "store" (173); printed is what line 169 has
\* printed by then.
ScanRaise(where, printed) ==
    /\ pc' = "raised"
    /\ result' = Raised(root_dir, where)
    /\ diag' = printed
    /\ UNCHANGED <<cache_dict, images_data, all_tags, todo>>

\* one file of the walk, the cache being saved after each file
ScanFile_saving ==
    /\ pc = "walk"
    /\ todo # <<>>
    /\ LET full_path == Head(todo)
           mtime == fs[full_path].mtime
       IN  IF fs[full_path] = NoFile
           THEN /\ ScanRaise("getmtime", diag)
                /\ UNCHANGED <<extracted, cacheFile, saves>>
           ELSE IF LookupRaises(cache_dict, full_path, mtime)
           THEN /\ ScanRaise("lookup", diag)
                /\ UNCHANGED <<extracted, cacheFile, saves>>
           ELSE IF CacheHit(cache_dict, full_path, mtime)
           THEN /\ images_data' =
                       AppendImage(images_data, full_path, cache_dict[full_path].tags)
                /\ all_tags' = all_tags \cup Elems(cache_dict[full_path].tags)
                /\ todo' = Tail(todo)
                /\ cacheFile' = save_cache(cache_dict)
                /\ saves' = saves + 1
                /\ UNCHANGED <<cache_dict, extracted, diag, pc, result>>
           ELSE \E o \in parse_and_store_tags(full_path, mtime, cache_dict) :
                /\ extracted' = extracted \cup {full_path}
                /\ IF o.raised
                   THEN /\ ScanRaise(IF IsDict(cache_dict) THEN "extract" ELSE "store",
                                     IF IsDict(cache_dict) \/ ~o.failed THEN diag
                                     ELSE Append(diag, full_path))
                        /\ UNCHANGED <<cacheFile, saves>>
                   ELSE /\ cache_dict' = o.cache
                        /\ cacheFile' = save_cache(o.cache)
                        /\ saves' = saves + 1
                        /\ images_data' = AppendImage(images_data, full_path, o.tags)
                        /\ all_tags' = all_tags \cup Elems(o.tags)
                        /\ diag' = IF o.failed THEN Append(diag, full_path) ELSE diag
                        /\ todo' = Tail(todo)
                        /\ UNCHANGED <<pc, result>>
    /\ UNCHANGED <<fs, root_dir, selected_tags, filtered_images,
                   log, negCached, lastScan, before>>
    /\ UNCHANGED <<textVars, saveVars, restVars>>

\* lines 118-141: one file of the walk
ScanFile ==
    /\ pc = "walk"
    /\ todo # <<>>
    /\ LET full_path == Head(todo)
           mtime == fs[full_path].mtime
       IN  IF fs[full_path] = NoFile
           THEN /\ ScanRaise("getmtime", diag)
                /\ UNCHANGED extracted
           ELSE IF LookupRaises(cache_dict, full_path, mtime)
           THEN /\ ScanRaise("lookup", diag)
                /\ UNCHANGED extracted
           ELSE IF CacheHit(cache_dict, full_path, mtime)
           THEN /\ images_data' =
                       AppendImage(images_data, full_path, cache_dict[full_path].tags)
                /\ all_tags' = all_tags \cup Elems(cache_dict[full_path].tags)
                /\ todo' = Tail(todo)
                /\ UNCHANGED <<cache_dict, extracted, diag, pc, result>>
           ELSE \E o \in parse_and_store_tags(full_path, mtime, cache_dict) :
                /\ extracted' = extracted \cup {full_path}
                /\ IF o.raised
                   THEN ScanRaise(IF IsDict(cache_dict) THEN "extract" ELSE "store",
                                  IF IsDict(cache_dict) \/ ~o.failed THEN diag
                                  ELSE Append(diag, full_path))
                   ELSE /\ cache_dict' = o.cache
                        /\ images_data' = AppendImage(images_data, full_path, o.tags)
                        /\ all_tags' = all_tags \cup Elems(o.tags)
                        /\ diag' = IF o.failed THEN Append(diag, full_path) ELSE diag
                        /\ todo' = Tail(todo)
                        /\ UNCHANGED <<pc, result>>
    /\ UNCHANGED <<fs, cacheFile, root_dir, selected_tags, filtered_images,
                   log, negCached, lastScan, before, saves>>
    /\ UNCHANGED <<textVars, saveVars, restVars>>

\* the paths of this scan whose extraction failed
Failed == Elems(diag)

\* lines 144-146: the one save, and the return
ScanSave ==
    /\ pc = "walk"
    /\ todo = <<>>
    /\ cacheFile' = save_cache(cache_dict)
    /\ saves' = saves + 1
    /\ result' = [how |-> "ran", root |-> root_dir, images |-> images_data,
                  all_tags |-> sorted(all_tags), error |-> "none"]
    /\ pc' = "done"
    /\ log' = <<>>
    /\ lastScan' = result'
    /\ negCached' = [p \in Paths |->
                        IF p \in Failed THEN fs[p].mtime
                        ELSE IF p \in extracted THEN 0
                        ELSE negCached[p]]
    /\ UNCHANGED <<fs, root_dir, cache_dict, todo, images_data, all_tags,
                   selected_tags, filtered_images, extracted, diag, before>>
    /\ UNCHANGED <<textVars, saveVars, restVars>>

---------------------------------------------------------------------------
(* Query Filter *)

MaxImages == 2

\* the tags of the images the filter is tried on, and a tag none of them has
\* (a tag of theirs in another case)
FilterTags == { <<"x">>, <<"y">> }
QueryExtra == { <<"X">> }

TagLists == UNION {ListsOf(S) : S \in SUBSET FilterTags}

\* the lists of at most MaxImages images; the i-th image has path i
ImageLists ==
    UNION { {[i \in 1..n |-> [path |-> i, tags |-> l[i]]] : l \in [1..n -> TagLists]} :
              n \in 0..MaxImages }

\* issubset taken for "has one of the tags"
filter_any(images, selected) ==
    IF selected # {}
    THEN SelectSeq(images, LAMBDA img : selected \cap Elems(img.tags) # {})
    ELSE images

\* lines 275-279
filter(images, selected) ==
    IF selected # {}
    THEN SelectSeq(images, LAMBDA img : selected \subseteq Elems(img.tags))
    ELSE images

Filter(selected) ==
    /\ pc = "done"
    /\ selected_tags' = selected
    /\ filtered_images' = filter(result.images, selected)
    /\ pc' = "shown"
    /\ UNCHANGED <<fs, cacheFile, root_dir, cache_dict, todo, images_data,
                   all_tags, result, extracted, diag, log, negCached, lastScan,
                   before, saves>>
    /\ UNCHANGED <<textVars, saveVars, restVars>>

---------------------------------------------------------------------------
(* The world around the process *)

\* log keeps the one change since the last scan when it is a file written
\* again, and "other" for anything else or more
Other == [op |-> "other", path |-> "none"]
Push(l, e) == IF l = <<>> /\ e.op = "modify" THEN <<e>> ELSE <<Other>>

\* a run of main() has ended before the disk changes
Between ==
    /\ Returned
    /\ pc' = "idle"
    /\ LocalsDead
    /\ lastScan' = [lastScan EXCEPT !.images = <<>>, !.all_tags = <<>>]
    /\ UNCHANGED <<textVars, saveVars, restVars>>

\* a file is written again: its modification time changes, to a later or an
\* earlier value
Modify(p, t, m) ==
    /\ Between
    /\ fs[p] # NoFile
    /\ t # fs[p].mtime
    /\ fs' = [fs EXCEPT ![p] = [mtime |-> t, meta |-> m]]
    /\ log' = Push(log, [op |-> "modify", path |-> p])
    /\ UNCHANGED <<cacheFile, negCached>>

Create(p, t, m) ==
    /\ Between
    /\ fs[p] = NoFile
    /\ fs' = [fs EXCEPT ![p] = [mtime |-> t, meta |-> m]]
    /\ log' = Push(log, [op |-> "create", path |-> p])
    /\ UNCHANGED <<cacheFile, negCached>>

Delete(p) ==
    /\ Between
    /\ fs[p] # NoFile
    /\ fs' = [fs EXCEPT ![p] = NoFile]
    /\ log' = Push(log, [op |-> "delete", path |-> p])
    /\ UNCHANGED <<cacheFile, negCached>>

\* CACHE_FILE is removed
RemoveCache ==
    /\ Between
    /\ cacheFile.kind # "missing"
    /\ cacheFile' = MissingFile
    /\ log' = Push(log, [op |-> "cache", path |-> "none"])
    /\ negCached' = [p \in Paths |-> 0]
    /\ UNCHANGED fs

\* CACHE_FILE is damaged: json.load will not parse it any more
DamageCache ==
    /\ Between
    /\ cacheFile.kind = "json"
    /\ cacheFile' = Damaged(cacheFile)
    /\ log' = Push(log, [op |-> "cache", path |-> "none"])
    /\ negCached' = [p \in Paths |-> 0]
    /\ UNCHANGED fs

---------------------------------------------------------------------------
(* save_cache taken alone, write by write: SpecSave *)

NoLoad == [at |-> "none", value |-> NoEntries]

SaveOff ==
    /\ cache_data = NoEntries /\ savePc = "off" /\ written = <<>> /\ loaded = NoLoad

\* tag lists a scan can store: none, the tags of TextValues in either order,
\* and a tag with a line break, a quote and a backslash inside
SaveTags ==
    {<<>>, << <<"a", "\n", "b", "\"", "\\">> >>}
        \cup ListsOf(extract_tags(JoinValues(TextValues("m1"))))

SaveEntries == [tags : SaveTags, mtime : 1..MaxTime]

\* the dicts save_cache is called with
Indexes == UNION {[S -> SaveEntries] : S \in SUBSET Paths}

\* what CACHE_FILE holds when save_cache is called: nothing, or an earlier save
PrevIndexes == {d \in Indexes : DOMAIN d = {"pics/a.png"} /\ d["pics/a.png"].mtime = 1}

\* the places of the text at which what was written so far can reach the
\* file (f.write hands the text to a buffer that is flushed when it is full,
\* and at the close): after any character; the model takes those after a comma
Cuts(text) == {k \in 1..(Len(text) - 1) : text[k] = ","}

\* line 95: open(CACHE_FILE, "w") creates the file or cuts it to length 0
SaveOpen ==
    /\ savePc = "call"
    /\ written' = <<>>
    /\ cacheFile' = OnDisk(<<>>)
    /\ savePc' = "open"
    /\ UNCHANGED <<cache_data, loaded>>
    /\ UNCHANGED <<fs, pc, root_dir, cache_dict, todo, images_data, all_tags,
                   result, selected_tags, filtered_images, extracted, diag, log,
                   negCached, lastScan, before, saves>>
    /\ UNCHANGED <<textVars, restVars>>

\* line 96: more of the text of json.dump reaches the file
SaveWrite(k) ==
    /\ savePc = "open"
    /\ k > Len(written)
    /\ \E text \in {json_dump(cache_data)} :
          /\ k \in Cuts(text)
          /\ \E w \in {SubSeq(text, 1, k)} :
                /\ written' = w
                /\ cacheFile' = OnDisk(w)
    /\ UNCHANGED <<cache_data, savePc, loaded>>
    /\ UNCHANGED <<fs, pc, root_dir, cache_dict, todo, images_data, all_tags,
                   result, selected_tags, filtered_images, extracted, diag, log,
                   negCached, lastScan, before, saves>>
    /\ UNCHANGED <<textVars, restVars>>

\* the end of the with block: the rest is flushed and the file closed
SaveClose ==
    /\ savePc = "open"
    /\ \E text \in {json_dump(cache_data)} :
          /\ written' = text
          /\ cacheFile' = OnDisk(text)
    /\ savePc' = "closed"
    /\ UNCHANGED <<cache_data, loaded>>
    /\ UNCHANGED <<fs, pc, root_dir, cache_dict, todo, images_data, all_tags,
                   result, selected_tags, filtered_images, extracted, diag, log,
                   negCached, lastScan, before, saves>>
    /\ UNCHANGED <<textVars, restVars>>

\* the process is ended inside the with block (killed, power lost): the file
\* stays as it is
Interrupt ==
    /\ savePc = "open"
    /\ savePc' = "killed"
    /\ UNCHANGED <<cache_data, written, loaded>>
    /\ UNCHANGED scanVars
    /\ UNCHANGED <<textVars, restVars>>

\* a reader (another run of the app) calls load_cache
Load ==
    /\ savePc \in {"call", "open", "closed", "killed"}
    /\ loaded = NoLoad
    /\ loaded' = [at |-> savePc, value |-> load_cache.value]
    /\ UNCHANGED <<cache_data, savePc, written>>
    /\ UNCHANGED scanVars
    /\ UNCHANGED <<textVars, restVars>>

---------------------------------------------------------------------------
(* os.walk and the extension filter taken alone: SpecWalk *)

MaxFiles == 2

\* the directories on disk: the root, directories below it at depth 1 and 2,
\* one of them named like an image, and a directory beside the root.  All of
\* them can be listed and none is a symbolic link.
WalkRoot == <<"pics">>
DirOrder ==
    << <<"pics">>, <<"pics", "sub">>, <<"pics", "sub", "deep">>,
       <<"pics", "x.png">>, <<"other">> >>
Dirs == {DirOrder[i] : i \in 1..Len(DirOrder)}

\* file names, in the order a directory lists them
NameOrder ==
    << <<"a", ".", "p", "n", "g">>, <<"B", ".", "P", "N", "G">>,
       <<"c", ".", "p", "N", "g">>, <<"n", ".", "t", "x", "t">>,
       <<"p", "n", "g">>, <<"d", ".", "p", "n", "g", ".", "b", "a", "k">>,
       <<".", "p", "n", "g">> >>
Names == {NameOrder[i] : i \in 1..Len(NameOrder)}

DiskFiles == [dir : Dirs, name : Names]

\* the sets of at most n files
RECURSIVE Trees(_)
Trees(n) ==
    IF n = 0 THEN {{}}
    ELSE Trees(n - 1) \cup {S \cup {f} : S \in Trees(n - 1), f \in DiskFiles}

WalkOff ==
    /\ tree = {} /\ walkPc = "off" /\ walked = <<>>
    /\ walk_images = <<>> /\ walk_keys = {}

\* str.endswith
endswith(s, suffix) ==
    /\ Len(s) >= Len(suffix)
    /\ SubSeq(s, Len(s) - Len(suffix) + 1, Len(s)) = suffix

DotPng == <<".", "p", "n", "g">>

\* the name compared as it is
IsPng_same_case(filename) == endswith(filename, DotPng)

\* line 119
IsPng(filename) == endswith(lower(filename), DotPng)

\* the directories os.walk finds in directory d
SubDirs(d) ==
    SelectSeq(DirOrder, LAMBDA e : Len(e) = Len(d) + 1 /\ SubSeq(e, 1, Len(d)) = d)

\* lines 118-120 for one directory: the full paths of its files that pass
\* line 119
FilesOf(t, d) ==
    LET names == SelectSeq(NameOrder,
                           LAMBDA n : [dir |-> d, name |-> n] \in t /\ IsPng(n))
    IN  [i \in 1..Len(names) |-> [dir |-> d, name |-> names[i]]]

\* line 117: os.walk yields a directory and then, one after the other, what
\* it yields for each directory inside it
RECURSIVE WalkDirs(_, _)
WalkDirs(t, ds) ==
    IF ds = <<>> THEN <<>>
    ELSE FilesOf(t, Head(ds)) \o WalkDirs(t, SubDirs(Head(ds))) \o WalkDirs(t, Tail(ds))

os_walk_png(t, top) == WalkDirs(t, <<top>>)

\* lines 117-120: the files the loops reach
Walk ==
    /\ walkPc = "start"
    /\ walked' = os_walk_png(tree, WalkRoot)
    /\ walkPc' = "walked"
    /\ UNCHANGED <<tree, walk_images, walk_keys>>
    /\ UNCHANGED <<scanVars, textVars, saveVars, otherVars>>

\* lines 136-139 and 173 for each of them, cache_dict having been empty
WalkStore ==
    /\ walkPc = "walked"
    /\ walk_images' = walked
    /\ walk_keys' = Elems(walked)
    /\ walkPc' = "stored"
    /\ UNCHANGED <<tree, walked>>
    /\ UNCHANGED <<scanVars, textVars, saveVars, otherVars>>

---------------------------------------------------------------------------
(* LoRA browser: the favorites (LoraBrowser.py lines 32-46, 551-561) *)

Threads == {"t1", "t2"}
FavNames == {<<"a">>, <<"b">>}

\* FAVORITES_JSON: absent, or holding the characters of text
NoFavFile == [exists |-> FALSE, text |-> <<>>]
FavText(text) == [exists |-> TRUE, text |-> text]

\* json.load of a text that is a list of strings, or one string
FavList(s) == Whole(s, ParseList(s, 1))
FavString(s) == Whole(s, ParseString(s, SkipWs(s, 1)))

\* lines 36-38: set(json.load(f)), ok being FALSE where one of the two
\* raises: json.load on a text that is no JSON, set() on a number.  The set
\* of a string is the set of its characters.
SetOfText(s) ==
    IF FavList(s).ok THEN [ok |-> TRUE, value |-> Elems(FavList(s).value)]
    ELSE IF FavString(s).ok
    THEN [ok |-> TRUE, value |-> {<<c>> : c \in Elems(FavString(s).value)}]
    ELSE [ok |-> FALSE, value |-> {}]

\* load_favorites without its try
load_favorites_no_try(f) ==
    IF ~f.exists THEN [raised |-> FALSE, value |-> {}]
    ELSE [raised |-> ~SetOfText(f.text).ok, value |-> SetOfText(f.text).value]

\* lines 32-40: what the call gives back, and whether it raised
load_favorites(f) ==
    IF ~f.exists THEN [raised |-> FALSE, value |-> {}]
    ELSE IF SetOfText(f.text).ok
    THEN [raised |-> FALSE, value |-> SetOfText(f.text).value]
    ELSE [raised |-> FALSE, value |-> {}]

\* the bytes of a buffer written at offset 0 of a file holding text
Overlay(text, buf) ==
    IF Len(buf) >= Len(text) THEN buf
    ELSE buf \o SubSeq(text, Len(buf) + 1, Len(text))

NoThread == [pc |-> "idle", name |-> <<>>, buf |-> <<>>, prev |-> {}, favs |-> {}]
NoSave == [is |-> FALSE, set |-> {}]
Quiet(t) == thr[t].pc \in {"idle", "returned", "raised"}

\* the other components leave the favorites alone, and the favorites them
FavFrame == UNCHANGED <<scanVars, textVars, saveVars, walkVars, browseVars, histVars>>

\* lines 553-554: a POST /api/favorites/toggle with name_no_ext = n reaches
\* thread t
FavCall(t, n) ==
    /\ Quiet(t)
    /\ thr' = [thr EXCEPT ![t] = [pc |-> "called", name |-> n, buf |-> <<>>,
                                  prev |-> favorites_set, favs |-> {}]]
    /\ parity' = [parity EXCEPT ![n] = 1 - @]
    /\ UNCHANGED <<favorites_set, favFile, fav0, favSaved, favLoad>>
    /\ FavFrame

\* every name is taken for a new one
FavBranch_add(S, n) == "add"

\* line 555: the branch the test takes
FavBranch(S, n) == IF n \in S THEN "remove" ELSE "add"

FavTest(t) ==
    /\ thr[t].pc = "called"
    /\ thr' = [thr EXCEPT ![t].pc = FavBranch(favorites_set, thr[t].name)]
    /\ UNCHANGED <<favorites_set, favFile, fav0, parity, favSaved, favLoad>>
    /\ FavFrame

\* lines 556 and 558: set.remove raises KeyError for a name that is not in
\* the set any more, set.add of a name that is in changes nothing
FavChange(t) ==
    /\ thr[t].pc \in {"remove", "add"}
    /\ IF thr[t].pc = "remove" /\ thr[t].name \notin favorites_set
       THEN /\ thr' = [thr EXCEPT ![t].pc = "raised"]
            /\ UNCHANGED favorites_set
       ELSE /\ thr' = [thr EXCEPT ![t].pc = "changed"]
            /\ favorites_set' =
                  IF thr[t].pc = "remove" THEN favorites_set \ {thr[t].name}
                  ELSE favorites_set \cup {thr[t].name}
    /\ UNCHANGED <<favFile, fav0, parity, favSaved, favLoad>>
    /\ FavFrame

\* line 43: open(FAVORITES_JSON, "w") creates the file or cuts it to nothing
FavOpen(t) ==
    /\ thr[t].pc = "changed"
    /\ favFile' = FavText(<<>>)
    /\ thr' = [thr EXCEPT ![t].pc = "open"]
    /\ UNCHANGED <<favorites_set, fav0, parity, favSaved, favLoad>>
    /\ FavFrame

\* line 44: list(favs) of the set as it is now, in any order, and its text,
\* which stays in the buffer of the file object
FavDump(t) ==
    /\ thr[t].pc = "open"
    /\ \E l \in ListsOf(favorites_set) :
          thr' = [thr EXCEPT ![t].pc = "dumped", ![t].buf = EncodeList(l, 0),
                             ![t].favs = favorites_set]
    /\ UNCHANGED <<favorites_set, favFile, fav0, parity, favSaved, favLoad>>
    /\ FavFrame

\* the end of the with block writes the buffer from the start of the file;
\* line 561 returns
FavClose(t) ==
    /\ thr[t].pc = "dumped"
    /\ favFile' = FavText(Overlay(favFile.text, thr[t].buf))
    /\ favSaved' = [is |-> TRUE, set |-> thr[t].favs]
    /\ thr' = [thr EXCEPT ![t].pc = "returned"]
    /\ UNCHANGED <<favorites_set, fav0, parity, favLoad>>
    /\ FavFrame

\* line 46: the server is stopped and started again
Restart ==
    /\ \A t \in Threads : Quiet(t)
    /\ favorites_set' = load_favorites(favFile).value
    /\ fav0' = load_favorites(favFile).value
    /\ favLoad' = [raised |-> load_favorites(favFile).raised,
                   value |-> load_favorites(favFile).value,
                   file |-> favFile, saved |-> favSaved]
    /\ parity' = [n \in FavNames |-> 0]
    /\ thr' = [t \in Threads |-> NoThread]
    /\ UNCHANGED <<favFile, favSaved>>
    /\ FavFrame

\* what FAVORITES_JSON can hold when the server starts
FavTexts ==
    {EncodeList(l, 0) : l \in UNION {ListsOf(S) : S \in SUBSET FavNames}}
      \cup {EncodeList(<<<<"a">>, <<"a">>>>, 0), <<>>, <<"[">>, <<"5">>,
            <<"\"", "a", "b", "\"">>}
FavFiles == {NoFavFile} \cup {FavText(x) : x \in FavTexts}

FavOff ==
    /\ favorites_set = {}
    /\ favFile = NoFavFile
    /\ thr = [t \in Threads |-> NoThread]
    /\ fav0 = {}
    /\ parity = [n \in FavNames |-> 0]
    /\ favSaved = NoSave
    /\ favLoad = [raised |-> FALSE, value |-> {}, file |-> NoFavFile, saved |-> NoSave]

---------------------------------------------------------------------------
(* LoRA browser: listing and serving files (LoraBrowser.py lines 487-528,
   563-597, and the page's script, lines 338-372) *)

LORA_DIRECTORY == <<"/", "l">>
\* the directory the server was started in
Cwd == <<"/", "w">>
FAVORITES == <<"F", "A", "V", "O", "R", "I", "T", "E", "S">>
DotSafetensors == <<".", "s", "a", "f", "e", "t", "e", "n", "s", "o", "r", "s">>

\* the files of the machine, in the order an os.walk from / meets them
LoraFiles ==
    << LORA_DIRECTORY \o <<"/", "b">> \o DotSafetensors,
       LORA_DIRECTORY \o <<"/", "b">> \o DotPng,
       LORA_DIRECTORY \o <<"/", "s", "/", "a">> \o DotSafetensors,
       <<"/", "l", "2", "/", "x">> \o DotSafetensors,
       <<"/", "o", "/", "y">> \o DotSafetensors >>

\* the pieces of p between the slashes, empty ones included
RECURSIVE PathSplit(_, _)
PathSplit(p, piece) ==
    IF p = <<>> THEN <<piece>>
    ELSE IF Head(p) = "/" THEN <<piece>> \o PathSplit(Tail(p), <<>>)
    ELSE PathSplit(Tail(p), Append(piece, Head(p)))

\* os.path.normpath on the pieces of an absolute path: empty pieces and "."
\* go, ".." takes the piece before it with it
RECURSIVE NormPieces(_, _)
NormPieces(pieces, acc) ==
    IF pieces = <<>> THEN acc
    ELSE IF Head(pieces) = <<>> \/ Head(pieces) = <<".">>
    THEN NormPieces(Tail(pieces), acc)
    ELSE IF Head(pieces) = <<".", ".">>
    THEN NormPieces(Tail(pieces),
                    IF acc = <<>> THEN acc ELSE SubSeq(acc, 1, Len(acc) - 1))
    ELSE NormPieces(Tail(pieces), Append(acc, Head(pieces)))

RECURSIVE PathJoin(_)
PathJoin(pieces) ==
    IF pieces = <<>> THEN <<>>
    ELSE <<"/">> \o Head(pieces) \o PathJoin(Tail(pieces))

normpath(p) ==
    IF NormPieces(PathSplit(p, <<>>), <<>>) = <<>> THEN <<"/">>
    ELSE PathJoin(NormPieces(PathSplit(p, <<>>), <<>>))

\* os.path.abspath: a relative path is joined to the working directory
abspath(p) ==
    IF p # <<>> /\ Head(p) = "/" THEN normpath(p)
    ELSE normpath(Cwd \o <<"/">> \o p)

\* str.startswith
startswith(s, prefix) ==
    /\ Len(prefix) <= Len(s)
    /\ SubSeq(s, 1, Len(prefix)) = prefix

\* sub in s
contains(s, sub) ==
    \E i \in 0..(Len(s) - Len(sub)) : SubSeq(s, i + 1, i + Len(sub)) = sub

basename(f) == PathSplit(f, <<>>)[Len(PathSplit(f, <<>>))]

\* os.path.splitext(name)[0]: the name up to its last dot, a leading dot
\* being no extension
LastDot(name) == SetMax({0} \cup {i \in 1..Len(name) : name[i] = "."})
splitext0(name) ==
    IF LastDot(name) <= 1 THEN name ELSE SubSeq(name, 1, LastDot(name) - 1)

BaseNoExt(f) == splitext0(basename(f))
IsSafetensors(f) == endswith(lower(basename(f)), DotSafetensors)

\* os.walk(folder): the files in folder and below it; nothing for a path
\* that is no directory
DirPrefix(folder) == IF folder = <<"/">> THEN folder ELSE folder \o <<"/">>
InFolder(f, folder) == startswith(f, DirPrefix(folder))
WalkSafes(folder) ==
    SelectSeq(LoraFiles, LAMBDA f : InFolder(f, folder) /\ IsSafetensors(f))

\* list.sort(key=...): by the key in code-point order, items of equal key
\* staying in the order they had
RECURSIVE InsertByKey(_, _)
InsertByKey(l, x) ==
    IF l = <<>> THEN <<x>>
    ELSE IF StrLess(x.key, Head(l).key) THEN <<x>> \o l
    ELSE <<Head(l)>> \o InsertByKey(Tail(l), x)

RECURSIVE SortByKey(_)
SortByKey(l) ==
    IF l = <<>> THEN <<>>
    ELSE InsertByKey(SortByKey(SubSeq(l, 1, Len(l) - 1)), l[Len(l)])

KeyPath(l) == [i \in 1..Len(l) |-> [key |-> lower(l[i]), path |-> l[i]]]
KeyBase(l) == [i \in 1..Len(l) |-> [key |-> lower(BaseNoExt(l[i])), path |-> l[i]]]
PathsOf(l) == [i \in 1..Len(l) |-> l[i].path]

\* an answer: its status, the safetensors_path of the items of a listing,
\* and the file sent
NoAnswer == [status |-> 0, files |-> <<>>, served |-> <<>>]
Listing(files) == [status |-> 200, files |-> files, served |-> <<>>]
Abort(status) == [status |-> status, files |-> <<>>, served |-> <<>>]
NoRequest == [api |-> "none", path |-> <<>>, query |-> <<>>]

\* lines 491, 519, 590: the test the three handlers make
Confined(p) == startswith(p, LORA_DIRECTORY)

\* api_files, lines 489-513
api_files(folder) ==
    IF ~Confined(abspath(folder)) THEN Abort(400)
    ELSE Listing(PathsOf(SortByKey(KeyPath(WalkSafes(abspath(folder))))))

\* api_preview, lines 517-528
api_preview(path) ==
    IF ~Confined(abspath(path)) THEN Abort(400)
    ELSE IF abspath(path) \notin Elems(LoraFiles) THEN Abort(404)
    ELSE [status |-> 200, files |-> <<>>, served |-> abspath(path)]

\* the files of LORA_DIRECTORY whose base name is a favorite and holds q
FavMatches(q) ==
    SelectSeq(WalkSafes(LORA_DIRECTORY),
              LAMBDA f : BaseNoExt(f) \in favorites_set /\ contains(lower(BaseNoExt(f)), q))

\* api_favorites_files, lines 532-549
api_favorites_files == Listing(PathsOf(SortByKey(KeyBase(FavMatches(<<>>)))))

\* the files of folder whose base name holds q
FolderMatches(q, folder) ==
    SelectSeq(WalkSafes(folder), LAMBDA f : contains(lower(BaseNoExt(f)), q))

\* api_search, lines 565-612: query is the parameter as sent, folder too
SearchIn(q, folder) ==
    IF folder = FAVORITES THEN Listing(PathsOf(SortByKey(KeyBase(FavMatches(q)))))
    ELSE IF ~Confined(folder) THEN Abort(400)
    ELSE Listing(PathsOf(SortByKey(KeyBase(FolderMatches(q, folder)))))
api_search(query, folder) == SearchIn(lower(strip(query)), abspath(folder))

BrowseFrame == UNCHANGED <<scanVars, textVars, saveVars, walkVars, favVars, histVars>>

\* the folders the tree of the page shows (build_tree, lines 99-128)
TreeFolders == {LORA_DIRECTORY, LORA_DIRECTORY \o <<"/", "s">>}

\* the paths a client can send
ReqPaths ==
    TreeFolders \cup Elems(LoraFiles)
      \cup {<<>>, FAVORITES, <<"/", "l", "2">>, <<"/", "o">>,
            LORA_DIRECTORY \o <<"/", ".", ".", "/", "o">>,
            LORA_DIRECTORY \o <<"/">>}

\* what can be typed into the search box
Queries == {<<>>, <<" ">>, <<"a">>, <<"B", " ">>, <<"x">>}

\* showFolder, lines 342-347
ShowFolder(folderPath) ==
    /\ currentPath' = folderPath
    /\ req' = [api |-> "files", path |-> folderPath, query |-> <<>>]
    /\ resp' = api_files(folderPath)
    /\ BrowseFrame

\* showFavorites, lines 350-355
ShowFavorites ==
    /\ currentPath' = FAVORITES
    /\ req' = [api |-> "favorites", path |-> <<>>, query |-> <<>>]
    /\ resp' = api_favorites_files
    /\ BrowseFrame

\* onSearchChange, lines 357-372: text is what the search box holds
OnSearchChange(text) ==
    /\ IF lower(strip(text)) = <<>>
       THEN IF currentPath = FAVORITES
            THEN /\ req' = [api |-> "favorites", path |-> <<>>, query |-> <<>>]
                 /\ resp' = api_favorites_files
            ELSE /\ req' = [api |-> "files", path |-> currentPath, query |-> <<>>]
                 /\ resp' = api_files(currentPath)
       ELSE /\ req' = [api |-> "search", path |-> currentPath,
                       query |-> lower(strip(text))]
            /\ resp' = api_search(lower(strip(text)), currentPath)
    /\ UNCHANGED currentPath
    /\ BrowseFrame

\* the same routes called by any client
GetFiles(path) ==
    /\ req' = [api |-> "files", path |-> path, query |-> <<>>]
    /\ resp' = api_files(path)
    /\ UNCHANGED currentPath
    /\ BrowseFrame

GetPreview(path) ==
    /\ req' = [api |-> "preview", path |-> path, query |-> <<>>]
    /\ resp' = api_preview(path)
    /\ UNCHANGED currentPath
    /\ BrowseFrame

GetSearch(query, path) ==
    /\ req' = [api |-> "search", path |-> path, query |-> query]
    /\ resp' = api_search(query, path)
    /\ UNCHANGED currentPath
    /\ BrowseFrame

BrowseOff ==
    /\ currentPath = <<>>
    /\ req = NoRequest
    /\ resp = NoAnswer

---------------------------------------------------------------------------
(* Prompt history (widget.py lines 981-1063, 1212-1217) *)

MaxHist == 3

HistNames == {<<"n">>, <<"q", "\"">>}
HistTexts == {<<"t">>}
NoHistory == [prompts |-> <<>>, favorites |-> <<>>]

NameKey == <<"n", "a", "m", "e">>
TextKey == <<"t", "e", "x", "t">>
PromptsKey == <<"p", "r", "o", "m", "p", "t", "s">>
FavoritesKey == <<"f", "a", "v", "o", "r", "i", "t", "e", "s">>

\* ---- json.dump(self._data, f, indent=2), line 1003

\* {"name": ..., "text": ...} at level n
EncodeItem(e, n) ==
    <<"{">> \o Indent(n + 1) \o EncodeString(NameKey) \o <<":", " ">>
            \o EncodeString(e.name) \o <<",">>
            \o Indent(n + 1) \o EncodeString(TextKey) \o <<":", " ">>
            \o EncodeString(e.text)
            \o Indent(n) \o <<"}">>

RECURSIVE EncodeItemSeq(_, _)
EncodeItemSeq(l, n) ==
    IF l = <<>> THEN <<>>
    ELSE Indent(n) \o EncodeItem(Head(l), n)
         \o (IF Tail(l) = <<>> THEN <<>> ELSE <<",">>) \o EncodeItemSeq(Tail(l), n)

EncodeItemList(l, n) ==
    IF l = <<>> THEN <<"[", "]">>
    ELSE <<"[">> \o EncodeItemSeq(l, n + 1) \o Indent(n) \o <<"]">>

hist_dump(d) ==
    <<"{">> \o Indent(1) \o EncodeString(PromptsKey) \o <<":", " ">>
            \o EncodeItemList(d.prompts, 1) \o <<",">>
            \o Indent(1) \o EncodeString(FavoritesKey) \o <<":", " ">>
            \o EncodeItemList(d.favorites, 1)
            \o Indent(0) \o <<"}">>

\* ---- json.load(f), line 996: of the JSON grammar, the part a dump of the
\* ---- history is written in

\* the position after "key": from i on, 0 if it does not stand there
KeyAt(s, i, key) == Lit(s, Lit(s, i, EncodeString(key)), <<":">>)

ItemClose(name, text, close) ==
    IF close = 0 THEN Fail ELSE Found(close, [name |-> name.value, text |-> text.value])

ItemTextValue(s, name, text) ==
    IF ~text.ok THEN Fail ELSE ItemClose(name, text, Lit(s, text.pos, <<"}">>))

ItemTextKey(s, name, colon) ==
    IF colon = 0 THEN Fail ELSE ItemTextValue(s, name, ParseString(s, SkipWs(s, colon)))

ItemNameValue(s, name) ==
    IF ~name.ok THEN Fail
    ELSE ItemTextKey(s, name, KeyAt(s, Lit(s, name.pos, <<",">>), TextKey))

ItemNameKey(s, colon) ==
    IF colon = 0 THEN Fail ELSE ItemNameValue(s, ParseString(s, SkipWs(s, colon)))

\* {"name": string, "text": string} from i on
ParseItem(s, i) == ItemNameKey(s, KeyAt(s, Lit(s, i, <<"{">>), NameKey))

RECURSIVE ItemListItems(_, _, _)
ItemListSep(s, acc, more, end) ==
    IF more > 0 THEN ItemListItems(s, more, acc)
    ELSE IF end > 0 THEN Found(end, acc)
    ELSE Fail

ItemListItem(s, acc, r) ==
    IF ~r.ok THEN Fail
    ELSE ItemListSep(s, Append(acc, r.value), Lit(s, r.pos, <<",">>), Lit(s, r.pos, <<"]">>))

ItemListItems(s, i, acc) == ItemListItem(s, acc, ParseItem(s, i))

ItemListBody(s, open, empty) ==
    IF open = 0 THEN Fail
    ELSE IF empty > 0 THEN Found(empty, <<>>)
    ELSE ItemListItems(s, open, <<>>)

\* a list of items from i on
ParseItemList(s, i) ==
    ItemListBody(s, Lit(s, i, <<"[">>), Lit(s, Lit(s, i, <<"[">>), <<"]">>))

HistClose(p, f, close) ==
    IF close = 0 THEN Fail ELSE Found(close, [prompts |-> p.value, favorites |-> f.value])

HistFavList(s, p, f) ==
    IF ~f.ok THEN Fail ELSE HistClose(p, f, Lit(s, f.pos, <<"}">>))

HistFavKey(s, p, colon) ==
    IF colon = 0 THEN Fail ELSE HistFavList(s, p, ParseItemList(s, colon))

HistPromptList(s, p) ==
    IF ~p.ok THEN Fail
    ELSE HistFavKey(s, p, KeyAt(s, Lit(s, p.pos, <<",">>), FavoritesKey))

HistPromptKey(s, colon) ==
    IF colon = 0 THEN Fail ELSE HistPromptList(s, ParseItemList(s, colon))

hist_json_load(s) == Whole(s, HistPromptKey(s, KeyAt(s, Lit(s, 1, <<"{">>), PromptsKey)))

\* ---- PromptHistoryManager

NoHistFile == [exists |-> FALSE, text |-> <<>>]

\* load, lines 991-999: the value of _data after it
load(f) ==
    IF ~f.exists THEN NoHistory
    ELSE IF hist_json_load(f.text).ok THEN hist_json_load(f.text).value
    ELSE NoHistory

\* save, lines 1001-1004: the file after it
save(d) == [exists |-> TRUE, text |-> hist_dump(d)]

\* 0 <= idx < len(l)
InRange(idx, l) == 0 <= idx /\ idx < Len(l)

\* del l[idx]
DelAt(l, idx) == SubSeq(l, 1, idx) \o SubSeq(l, idx + 2, Len(l))

add_prompt(d, name, text) ==
    [d EXCEPT !.prompts = Append(@, [name |-> name, text |-> text])]

remove_prompt(d, idx) ==
    IF InRange(idx, d.prompts) THEN [d EXCEPT !.prompts = DelAt(@, idx)] ELSE d

clear_prompts(d) == [d EXCEPT !.prompts = <<>>]

add_favorite(d, name, text) ==
    [d EXCEPT !.favorites = Append(@, [name |-> name, text |-> text])]

remove_favorite(d, idx) ==
    IF InRange(idx, d.favorites) THEN [d EXCEPT !.favorites = DelAt(@, idx)] ELSE d

\* the item is added to the favorites and stays in the prompts
move_copy(d, idx) ==
    IF InRange(idx, d.prompts)
    THEN [d EXCEPT !.favorites = Append(@, d.prompts[idx + 1])]
    ELSE d

\* lines 1044-1052
move_to_favorites(d, idx) ==
    IF InRange(idx, d.prompts)
    THEN [prompts |-> DelAt(d.prompts, idx),
          favorites |-> Append(d.favorites, d.prompts[idx + 1])]
    ELSE d

\* lines 1054-1063
rename_prompt(d, idx, is_favorite, new_name) ==
    IF ~is_favorite
    THEN IF InRange(idx, d.prompts)
         THEN [d EXCEPT !.prompts[idx + 1].name = new_name] ELSE d
    ELSE IF InRange(idx, d.favorites)
         THEN [d EXCEPT !.favorites[idx + 1].name = new_name] ELSE d

HistFrame == UNCHANGED <<scanVars, textVars, saveVars, walkVars, favVars, browseVars>>

NoOp == [op |-> "none", via |-> "none", idx |-> 0, fav |-> FALSE, saved |-> FALSE,
         before |-> NoHistory, fileBefore |-> NoHistFile]

\* an operation of the manager has run: _data is d, and self.save() was
\* called or not
HistDone(op, via, idx, fav, d, saved) ==
    /\ hist_data' = d
    /\ histFile' = IF saved THEN save(d) ELSE histFile
    /\ histOp' = [op |-> op, via |-> via, idx |-> idx, fav |-> fav, saved |-> saved,
                  before |-> hist_data, fileBefore |-> histFile]
    /\ histChanged' = (histChanged \/ d # hist_data)

\* the lists hold fewer than MaxHist items
Room == Len(hist_data.prompts) + Len(hist_data.favorites) < MaxHist

AddPrompt(name, text) ==
    /\ Room
    /\ HistDone("add_prompt", "manager", 0, FALSE, add_prompt(hist_data, name, text), TRUE)
    /\ HistFrame

RemovePrompt(idx) ==
    /\ HistDone("remove_prompt", "manager", idx, FALSE, remove_prompt(hist_data, idx),
                InRange(idx, hist_data.prompts))
    /\ HistFrame

ClearPrompts ==
    /\ HistDone("clear_prompts", "manager", 0, FALSE, clear_prompts(hist_data), TRUE)
    /\ HistFrame

AddFavorite(name, text) ==
    /\ Room
    /\ HistDone("add_favorite", "manager", 0, TRUE, add_favorite(hist_data, name, text), TRUE)
    /\ HistFrame

\* remove_favorite leaving out its self.save()
RemoveFavorite_unsaved(idx) ==
    /\ HistDone("remove_favorite", "manager", idx, TRUE, remove_favorite(hist_data, idx),
                FALSE)
    /\ HistFrame

RemoveFavorite(idx) ==
    /\ HistDone("remove_favorite", "manager", idx, TRUE, remove_favorite(hist_data, idx),
                InRange(idx, hist_data.favorites))
    /\ HistFrame

MoveToFavorites(idx) ==
    /\ HistDone("move_to_favorites", "manager", idx, FALSE,
                move_to_favorites(hist_data, idx), InRange(idx, hist_data.prompts))
    /\ HistFrame

RenamePrompt(idx, is_favorite, new_name) ==
    /\ HistDone("rename_prompt", "manager", idx, is_favorite,
                rename_prompt(hist_data, idx, is_favorite, new_name),
                InRange(idx, IF is_favorite THEN hist_data.favorites
                             ELSE hist_data.prompts))
    /\ HistFrame

\* PromptHistoryPopup._on_favorite_clicked, lines 1212-1217
OnFavoriteClicked(idx, is_favorite) ==
    /\ IF is_favorite
       THEN HistDone("remove_favorite", "popup", idx, TRUE,
                     remove_favorite(hist_data, idx), InRange(idx, hist_data.favorites))
       ELSE HistDone("move_to_favorites", "popup", idx, FALSE,
                     move_to_favorites(hist_data, idx), InRange(idx, hist_data.prompts))
    /\ HistFrame

\* a new PromptHistoryManager: __init__ and load, lines 987-999
HistLoad ==
    /\ hist_data' = load(histFile)
    /\ histOp' = [op |-> "load", via |-> "manager", idx |-> 0, fav |-> FALSE,
                  saved |-> FALSE, before |-> hist_data, fileBefore |-> histFile]
    /\ UNCHANGED <<histFile, histChanged>>
    /\ HistFrame

\* what the history file can hold when the plugin starts
HistFiles ==
    {NoHistFile, [exists |-> TRUE, text |-> <<>>], [exists |-> TRUE, text |-> <<"{">>],
     save(NoHistory),
     save([prompts |-> <<[name |-> <<"n">>, text |-> <<"t">>]>>,
           favorites |-> <<[name |-> <<"q", "\"">>, text |-> <<"t">>]>>])}

Indices == -1..MaxHist

HistOff ==
    /\ hist_data = NoHistory
    /\ histFile = NoHistFile
    /\ histOp = NoOp
    /\ histChanged = FALSE

RestOff == WalkOff /\ FavOff /\ BrowseOff /\ HistOff

---------------------------------------------------------------------------
(* Scans that meet a fault: a cache of the wrong shape, a file that vanishes *)

\* what CACHE_FILE can hold for a file of the disk when another program or a
\* hand has written it: no entry, an entry without "tags", an entry whose
\* "mtime" is a string
OddEntries == {NoTagsEntry(t) : t \in 1..MaxTime} \cup {TextMtimeEntry}

\* the mappings of that kind over the files of disk f
OddDicts(f) ==
    UNION {[S -> OddEntries] : S \in SUBSET {p \in Paths : f[p] # NoFile} \ {{}}}

\* the contents of CACHE_FILE a scan of disk f starts from
FaultCaches(f) ==
    {MissingFile}
      \cup {[kind |-> "json", data |-> d] : d \in {ListCache, NumberCache} \cup OddDicts(f)}

\* line 121: a file os.walk has listed is deleted by another program before
\* the loop comes to it
Vanish(p) ==
    /\ pc = "walk"
    /\ p \in Elems(todo)
    /\ fs[p] # NoFile
    /\ fs' = [fs EXCEPT ![p] = NoFile]
    /\ UNCHANGED <<cacheFile, pc, root_dir, cache_dict, todo, images_data, all_tags,
                   result, selected_tags, filtered_images, extracted, diag, log,
                   negCached, lastScan, before, saves>>
    /\ UNCHANGED <<textVars, saveVars, restVars>>

\* the scan of a process that has just started
FaultCall ==
    /\ pc = "idle"
    /\ ScanCall("pics")

---------------------------------------------------------------------------
(* Specifications *)

ScanOff ==
    /\ fs = [p \in Paths |-> NoFile]
    /\ cacheFile = MissingFile
    /\ pc = "off"
    /\ root_dir = "none"
    /\ cache_dict = NoEntries
    /\ todo = <<>>
    /\ images_data = <<>>
    /\ all_tags = {}
    /\ result = NoResult
    /\ selected_tags = {}
    /\ filtered_images = <<>>
    /\ extracted = {}
    /\ diag = <<>>
    /\ log = <<>>
    /\ negCached = [p \in Paths |-> 0]
    /\ lastScan = NoResult
    /\ before = NoBefore
    /\ saves = 0

Init ==
    /\ fs \in [Paths -> Files \cup {NoFile}]
    /\ cacheFile \in {MissingFile, Damaged(MissingFile)}
    /\ pc = "idle"
    /\ root_dir = "none"
    /\ cache_dict = NoEntries
    /\ todo = <<>>
    /\ images_data = <<>>
    /\ all_tags = {}
    /\ result = NoResult
    /\ selected_tags = {}
    /\ filtered_images = <<>>
    /\ extracted = {}
    /\ diag = <<>>
    /\ log = <<>>
    /\ negCached = [p \in Paths |-> 0]
    /\ lastScan = NoResult
    /\ before = NoBefore
    /\ saves = 0
    /\ TextOff
    /\ SaveOff
    /\ RestOff

Next ==
    \/ \E r \in Roots : ScanCall(r)
    \/ ScanFile
    \/ ScanSave
    \/ \E p \in Paths, t \in 1..MaxTime, m \in Metas : Modify(p, t, m)
    \/ \E p \in Paths, t \in 1..MaxTime, m \in Metas : Create(p, t, m)
    \/ \E p \in Paths : Delete(p)
    \/ RemoveCache
    \/ DamageCache

Spec == Init /\ [][Next]_vars

NextText == ParsePositive \/ Clean \/ Tokenize

InitText ==
    /\ metadata_text \in Texts(MaxSegs) \cup MoreTexts
    /\ positive_part = <<>> /\ cleaned_str = <<>> /\ tags = {}
    /\ step = "text"
    /\ ScanOff
    /\ SaveOff
    /\ RestOff

SpecText == InitText /\ [][NextText]_vars

\* main() after load_images_and_tags has returned images_data and all_tags
InitFilter ==
    /\ fs = [p \in Paths |-> NoFile]
    /\ cacheFile = MissingFile
    /\ pc = "done"
    /\ root_dir = "none"
    /\ cache_dict = NoEntries
    /\ todo = <<>>
    /\ images_data = <<>>
    /\ all_tags = {}
    /\ \E imgs \in ImageLists :
          result = [how |-> "ran", root |-> "pics", images |-> imgs,
                    all_tags |-> sorted(UNION {Elems(imgs[i].tags) : i \in 1..Len(imgs)}),
                    error |-> "none"]
    /\ selected_tags = {}
    /\ filtered_images = <<>>
    /\ extracted = {}
    /\ diag = <<>>
    /\ log = <<>>
    /\ negCached = [p \in Paths |-> 0]
    /\ lastScan = NoResult
    /\ before = NoBefore
    /\ saves = 0
    /\ TextOff
    /\ SaveOff
    /\ RestOff

NextFilter == \E q \in SUBSET (Elems(result.all_tags) \cup QueryExtra) : Filter(q)

SpecFilter == InitFilter /\ [][NextFilter]_vars

\* save_cache(cache_data) is called while CACHE_FILE holds an earlier save
InitSave ==
    /\ cache_data \in Indexes
    /\ cacheFile \in {MissingFile} \cup {save_cache(d) : d \in PrevIndexes}
    /\ before = [NoBefore EXCEPT !.cacheFile = cacheFile]
    /\ savePc = "call"
    /\ written = <<>>
    /\ loaded = NoLoad
    /\ fs = [p \in Paths |-> NoFile]
    /\ pc = "off"
    /\ root_dir = "none"
    /\ cache_dict = NoEntries
    /\ todo = <<>>
    /\ images_data = <<>>
    /\ all_tags = {}
    /\ result = NoResult
    /\ selected_tags = {}
    /\ filtered_images = <<>>
    /\ extracted = {}
    /\ diag = <<>>
    /\ log = <<>>
    /\ negCached = [p \in Paths |-> 0]
    /\ lastScan = NoResult
    /\ saves = 0
    /\ TextOff
    /\ RestOff

NextSave ==
    \/ SaveOpen
    \/ \E k \in Cuts(json_dump(cache_data)) : SaveWrite(k)
    \/ SaveClose
    \/ Interrupt
    \/ Load

SpecSave == InitSave /\ [][NextSave]_vars

InitFault ==
    /\ fs \in [Paths -> Files \cup {NoFile}] \ {[p \in Paths |-> NoFile]}
    /\ cacheFile \in FaultCaches(fs)
    /\ pc = "idle"
    /\ root_dir = "none"
    /\ cache_dict = NoEntries
    /\ todo = <<>>
    /\ images_data = <<>>
    /\ all_tags = {}
    /\ result = NoResult
    /\ selected_tags = {}
    /\ filtered_images = <<>>
    /\ extracted = {}
    /\ diag = <<>>
    /\ log = <<>>
    /\ negCached = [p \in Paths |-> 0]
    /\ lastScan = NoResult
    /\ before = NoBefore
    /\ saves = 0
    /\ TextOff
    /\ SaveOff
    /\ RestOff

NextFault ==
    \/ FaultCall
    \/ ScanFile
    \/ ScanSave
    \/ \E p \in Paths : Vanish(p)

SpecFault == InitFault /\ [][NextFault]_vars

\* the server has started on a FAVORITES_JSON of any content
FavStarted ==
    /\ favFile \in FavFiles
    /\ favorites_set = load_favorites(favFile).value
    /\ fav0 = favorites_set
    /\ thr = [t \in Threads |-> NoThread]
    /\ parity = [n \in FavNames |-> 0]
    /\ favSaved = NoSave
    /\ favLoad = [raised |-> load_favorites(favFile).raised,
                  value |-> load_favorites(favFile).value,
                  file |-> favFile, saved |-> NoSave]

InitFav ==
    /\ ScanOff
    /\ TextOff
    /\ SaveOff
    /\ WalkOff
    /\ FavStarted
    /\ BrowseOff
    /\ HistOff

\* the requests come one after the other
NextFav ==
    \/ \E n \in FavNames : FavCall("t1", n)
    \/ FavTest("t1")
    \/ FavChange("t1")
    \/ FavOpen("t1")
    \/ FavDump("t1")
    \/ FavClose("t1")
    \/ Restart

SpecFav == InitFav /\ [][NextFav]_vars

\* two requests, one to each thread of the server, at any time
RaceCall(t, n) ==
    /\ thr[t].pc = "idle"
    /\ FavCall(t, n)

InitRace ==
    /\ ScanOff
    /\ TextOff
    /\ SaveOff
    /\ WalkOff
    /\ FavStarted
    /\ BrowseOff
    /\ HistOff
    /\ favFile.exists => FavList(favFile.text).ok

NextRace ==
    \/ \E t \in Threads, n \in FavNames : RaceCall(t, n)
    \/ \E t \in Threads : FavTest(t)
    \/ \E t \in Threads : FavChange(t)
    \/ \E t \in Threads : FavOpen(t)
    \/ \E t \in Threads : FavDump(t)
    \/ \E t \in Threads : FavClose(t)

SpecRace == InitRace /\ [][NextRace]_vars

\* the page has been opened: loadRoot, lines 338-341
InitBrowse ==
    /\ ScanOff
    /\ TextOff
    /\ SaveOff
    /\ WalkOff
    /\ FavStarted
    /\ favFile.exists => FavList(favFile.text).ok
    /\ currentPath = LORA_DIRECTORY
    /\ req = [api |-> "files", path |-> LORA_DIRECTORY, query |-> <<>>]
    /\ resp = api_files(LORA_DIRECTORY)
    /\ HistOff

NextBrowse ==
    \/ \E f \in TreeFolders : ShowFolder(f)
    \/ ShowFavorites
    \/ \E text \in Queries : OnSearchChange(text)
    \/ \E path \in ReqPaths : GetFiles(path)
    \/ \E path \in ReqPaths : GetPreview(path)
    \/ \E query \in Queries, path \in ReqPaths : GetSearch(query, path)

SpecBrowse == InitBrowse /\ [][NextBrowse]_vars

InitHist ==
    /\ ScanOff
    /\ TextOff
    /\ SaveOff
    /\ WalkOff
    /\ FavOff
    /\ BrowseOff
    /\ histFile \in HistFiles
    /\ hist_data = load(histFile)
    /\ histOp = NoOp
    /\ histChanged = FALSE

NextHist ==
    \/ \E name \in HistNames, text \in HistTexts : AddPrompt(name, text)
    \/ \E idx \in Indices : RemovePrompt(idx)
    \/ ClearPrompts
    \/ \E name \in HistNames, text \in HistTexts : AddFavorite(name, text)
    \/ \E idx \in Indices : RemoveFavorite(idx)
    \/ \E idx \in Indices : MoveToFavorites(idx)
    \/ \E idx \in Indices, is_favorite \in BOOLEAN, new_name \in HistNames :
          RenamePrompt(idx, is_favorite, new_name)
    \/ \E idx \in Indices, is_favorite \in BOOLEAN : OnFavoriteClicked(idx, is_favorite)
    \/ HistLoad

SpecHist == InitHist /\ [][NextHist]_vars

InitWalk ==
    /\ tree \in Trees(MaxFiles)
    /\ walkPc = "start"
    /\ walked = <<>>
    /\ walk_images = <<>>
    /\ walk_keys = {}
    /\ ScanOff
    /\ TextOff
    /\ SaveOff
    /\ FavOff
    /\ BrowseOff
    /\ HistOff

NextWalk == Walk \/ WalkStore

SpecWalk == InitWalk /\ [][NextWalk]_vars

---------------------------------------------------------------------------
(* Properties *)

\* the image files under root r, as they are on disk
Observed(r) == {p \in Paths : DirExists(r) /\ RootOf(p) = r /\ fs[p] # NoFile}

ImagePaths == {result.images[i].path : i \in 1..Len(result.images)}

\* the tags the returned images give for path p
TagsReturned(p) ==
    result.images[CHOOSE i \in 1..Len(result.images) : result.images[i].path = p].tags

Count(l, x) == Cardinality({i \in 1..Len(l) : l[i] = x})

\* the scan that has just returned follows a scan of the same root
SameRootAgain == pc = "done" /\ before.lastScan.root = root_dir

\* C1 (Staleness): when a scan follows a scan of the same root and, in
\* between, exactly one observed file was written again (its modification
\* time changed) and nothing else changed, the later scan runs extraction for
\* that file and for no other, and every other entry of the Index has the
\* tags and mtime it had before the scan.
C1_Staleness ==
    \A p \in Paths :
        ( /\ SameRootAgain
          /\ before.log = <<[op |-> "modify", path |-> p]>>
          /\ p \in Observed(root_dir) )
        => /\ extracted = {p}
           /\ \A q \in DOMAIN before.cacheFile.data \ {p} :
                 /\ q \in DOMAIN cacheFile.data
                 /\ cacheFile.data[q] = before.cacheFile.data[q]

C1_Witness ==
    /\ SameRootAgain
    /\ Cardinality(Observed(root_dir)) = 2
    /\ \E p \in Observed(root_dir) :
          /\ before.log = <<[op |-> "modify", path |-> p]>>
          /\ extracted = {p}

\* C2 (Idempotence): when a scan follows a scan of the same root with no
\* change on disk in between, it returns the same images and vocabulary,
\* runs no extraction and leaves the persisted Index as it was.
C2_Idempotent ==
    (SameRootAgain /\ before.log = <<>>)
    => /\ result.images = before.lastScan.images
       /\ result.all_tags = before.lastScan.all_tags
       /\ extracted = {}
       /\ cacheFile = before.cacheFile

C2_Witness ==
    /\ SameRootAgain
    /\ before.log = <<>>
    /\ Len(result.images) = 2
    /\ \E i \in 1..2 : Len(result.images[i].tags) = 2
    /\ extracted = {}

\* C3 (Negative caching): after a scan in which the extraction of a file
\* failed, the persisted Index holds for that file an entry with no tags and
\* the file's current mtime; and a scan that finds a file with the mtime its
\* failed extraction is cached under does not extract it and returns no tags
\* for it.
C3_NegativeCaching ==
    pc = "done" =>
        /\ \A p \in Failed :
              /\ cacheFile.kind = "json"
              /\ p \in DOMAIN cacheFile.data
              /\ cacheFile.data[p] = [tags |-> <<>>, mtime |-> fs[p].mtime]
        /\ \A p \in Observed(root_dir) :
              before.negCached[p] = fs[p].mtime
              => /\ p \notin extracted
                 /\ p \in ImagePaths
                 /\ TagsReturned(p) = <<>>

C3_Witness ==
    /\ pc = "done"
    /\ \E p \in Observed(root_dir) :
          /\ before.negCached[p] = fs[p].mtime
          /\ p \notin extracted
          /\ TagsReturned(p) = <<>>
          /\ cacheFile.data[p] = [tags |-> <<>>, mtime |-> fs[p].mtime]

\* C4 (Positive-text isolation, as claimed): the text that is tokenized is
\* the trimmed prefix of the raw text before the FIRST case-insensitive
\* occurrence of the marker, and the whole trimmed text when there is none.
C4_FirstMarker ==
    step \in {"positive", "cleaned", "tags"} =>
        positive_part =
            IF MarkerStarts(metadata_text) # {}
            THEN strip(SubSeq(metadata_text, 1, SetMin(MarkerStarts(metadata_text)) - 1))
            ELSE strip(metadata_text)

\* C5 (Root enumeration failure is fatal, as claimed): a scan of a root
\* directory that does not exist ends with a failure handed to its caller,
\* never with a returned result.
C5_MissingRootRaises ==
    (pc \in {"done", "raised"} /\ ~DirExists(root_dir)) => result.how = "raised"

\* C6 (A per-file failure never aborts a scan): no exception of an
\* extraction leaves the scan; the scan that returns has an image for every
\* observed file and has saved the Index with an entry for each of them; and
\* each file whose extraction failed is returned without tags and named by
\* exactly one diagnostic.
C6_FailureContained ==
    /\ pc = "raised" => result.error # "extract"
    /\ pc = "done" =>
          /\ result.how = "ran"
          /\ ImagePaths = Observed(root_dir)
          /\ cacheFile.kind = "json"
          /\ Observed(root_dir) \subseteq DOMAIN cacheFile.data
          /\ \A p \in Observed(root_dir) :
                IF p \in extracted /\ ~Readable(fs[p])
                THEN TagsReturned(p) = <<>> /\ Count(diag, p) = 1
                ELSE Count(diag, p) = 0

C6_Witness ==
    /\ pc = "done"
    /\ result.how = "ran"
    /\ "pics/a.png" \in Failed
    /\ "pics/b.png" \in extracted \ Failed
    /\ TagsReturned("pics/b.png") # <<>>

\* C7 (load never propagates a failure): no exception of load_cache leaves
\* the scan, and what it returns is the empty Index when the cache file is
\* missing or does not parse, and the parsed mapping otherwise.
C7_LoadTotal ==
    /\ pc = "raised" => result.error # "load"
    /\ (pc = "walk" /\ images_data = <<>>) =>
          cache_dict = IF cacheFile.kind = "json" THEN cacheFile.data ELSE NoEntries

C7_Witness ==
    /\ pc = "walk"
    /\ images_data = <<>>
    /\ cacheFile.kind = "corrupt"
    /\ cacheFile.data # NoEntries
    /\ cache_dict = NoEntries

\* C8 (Orphans are never pruned): a scan that found a cache file that parses
\* leaves every key of it in the persisted Index, and the entry of a path it
\* did not observe keeps its tags and mtime.
C8_NoPrune ==
    (pc = "done" /\ before.cacheFile.kind = "json")
    => \A q \in DOMAIN before.cacheFile.data :
          /\ q \in DOMAIN cacheFile.data
          /\ q \notin Observed(root_dir) => cacheFile.data[q] = before.cacheFile.data[q]

C8_Witness ==
    /\ pc = "done"
    /\ before.cacheFile.kind = "json"
    /\ root_dir = "pics"
    /\ extracted # {}
    /\ \E q \in DOMAIN before.cacheFile.data :
          /\ fs[q] = NoFile
          /\ before.cacheFile.data[q].tags # <<>>
          /\ cacheFile.data[q] = before.cacheFile.data[q]

\* C9 (Returned images): the images a scan returns hold exactly one pair for
\* each file observed under the root, and none for a path that is only in
\* the persisted Index.
C9_ImagesAreObserved ==
    pc = "done" =>
        /\ ImagePaths = Observed(root_dir)
        /\ Len(result.images) = Cardinality(Observed(root_dir))

C9_Witness ==
    /\ pc = "done"
    /\ Len(result.images) = 1
    /\ \E q \in DOMAIN cacheFile.data : q \notin Observed(root_dir)
    /\ \E p \in Observed(root_dir) : TagsReturned(p) = <<>>

\* C10 (Query filter): the filter keeps exactly the images whose tags hold
\* every selected tag, compared as they are; with no tag selected it keeps
\* every image, and an image with only some of the selected tags is left out.
C10_Filter ==
    pc = "shown" =>
        /\ \A i \in 1..Len(result.images) :
              (\E j \in 1..Len(filtered_images) : filtered_images[j] = result.images[i])
              <=> selected_tags \subseteq Elems(result.images[i].tags)
        /\ Len(filtered_images) =
              Cardinality({i \in 1..Len(result.images) :
                              selected_tags \subseteq Elems(result.images[i].tags)})
        /\ selected_tags = {} => filtered_images = result.images

C10_Witness ==
    /\ pc = "shown"
    /\ selected_tags = FilterTags
    /\ Len(result.images) = 2
    /\ Elems(result.images[1].tags) = {<<"x">>}
    /\ Elems(result.images[2].tags) = FilterTags
    /\ filtered_images = <<result.images[2]>>

\* C11 (save is atomic, as claimed): a load of the cache file at any point
\* of a save, a save that was interrupted included, yields the whole Index
\* the file held before the save or the whole Index being saved.
C11_SaveAtomic ==
    loaded.at \in {"call", "open", "closed", "killed"}
    => loaded.value \in {before.cacheFile.data, cache_data}

\* C17 (Load/save round trip): a load after save(I) has returned yields a
\* mapping with the keys of I and, for each key, the tags and the mtime of I,
\* so that every cache-hit decision is the same on both.
C17_RoundTrip ==
    loaded.at = "closed" =>
        /\ cacheFile.kind = "json"
        /\ DOMAIN loaded.value = DOMAIN cache_data
        /\ \A p \in DOMAIN cache_data :
              /\ loaded.value[p].tags = cache_data[p].tags
              /\ loaded.value[p].mtime = cache_data[p].mtime
        /\ \A p \in Paths, t \in 1..MaxTime :
              CacheHit(loaded.value, p, t) <=> CacheHit(cache_data, p, t)

C17_Witness ==
    /\ loaded.at = "closed"
    /\ DOMAIN cache_data = Paths
    /\ Len(cache_data["pics/a.png"].tags) = 2
    /\ Len(cache_data["pics/b.png"].tags) = 1
    /\ \E c \in {"\n", "\"", "\\"} : c \in Elems(cache_data["pics/b.png"].tags[1])
    /\ loaded.value = cache_data

\* C12 (Single bulk save): a scan does not write the persisted cache while
\* files are still being enumerated or extracted, and a scan that has
\* returned has written it exactly once, after the last file was processed.
C12_SingleSave ==
    /\ pc = "walk" => (saves = 0 /\ cacheFile = before.cacheFile)
    /\ pc = "done" =>
          /\ saves = 1
          /\ todo = <<>>
          /\ Len(images_data) = Cardinality(Observed(root_dir))
          /\ cacheFile = save_cache(cache_dict)

C12_Witness ==
    /\ pc = "done"
    /\ saves = 1
    /\ Len(images_data) = 2
    /\ Cardinality(extracted) = 2
    /\ cacheFile # before.cacheFile

\* the tags of the images a scan returned
ReturnedTags == UNION {Elems(result.images[i].tags) : i \in 1..Len(result.images)}

\* C13 (Vocabulary): the vocabulary a scan returns holds every tag of every
\* returned image and no other tag, holds no tag twice, and is in ascending
\* order.
C13_Vocabulary ==
    pc = "done" =>
        /\ Elems(result.all_tags) = ReturnedTags
        /\ \A i, j \in 1..Len(result.all_tags) :
              i < j => /\ result.all_tags[i] # result.all_tags[j]
                       /\ StrLess(result.all_tags[i], result.all_tags[j])

C13_Witness ==
    /\ pc = "done"
    /\ Len(result.images) = 2
    /\ result.images[1].tags = <<>>
    /\ Len(result.images[2].tags) = 2
    /\ StrLess(result.images[2].tags[2], result.images[2].tags[1])
    /\ result.all_tags = <<result.images[2].tags[2], result.images[2].tags[1]>>

\* the tags of all entries of the persisted Index
IndexTags == UNION {Elems(cacheFile.data[q].tags) : q \in DOMAIN cacheFile.data}

\* C14 (TagVocabulary covers the whole Index, as claimed): after every scan
\* the vocabulary is the union of the tags of ALL entries of the Index, the
\* entries of files the scan did not observe included.  Stated for the scans
\* of a root directory that exists.
C14_VocabularyCoversIndex ==
    (pc = "done" /\ DirExists(root_dir)) => Elems(result.all_tags) = IndexTags

\* a colon of s with a digit right after it
ColonDigit(s) == \E i \in 1..(Len(s) - 1) : s[i] = ":" /\ IsDigit(s[i + 1])

\* C15 (Cleaning order): the cleaned text holds no parenthesis and no colon
\* followed by a digit, a weight that shows only once the parentheses are
\* gone included; "(t:w)" yields the single tag lower(trim(t)) for every tag
\* text t and numeric weight w; and "(character:1.6), (blue sky)" yields
\* {"character", "blue sky"}.
C15_CleaningOrder ==
    /\ step \in {"cleaned", "tags"} =>
          /\ \A i \in 1..Len(cleaned_str) : cleaned_str[i] \notin {"(", ")"}
          /\ ~ColonDigit(cleaned_str)
    /\ step = "tags" =>
          /\ \A t \in TagTexts, w \in Weights :
                metadata_text \in {Weighted(t, w), WeightInside(t, w)}
                => tags = {lower(strip(t))}
          /\ metadata_text = TextCharacter =>
                tags = { <<"c", "h", "a", "r", "a", "c", "t", "e", "r">>,
                         <<"b", "l", "u", "e", " ", "s", "k", "y">> }

C15_Witness ==
    /\ step = "tags"
    /\ metadata_text = Weighted(<<" ", "B", " ">>, <<"0", ".", "2", "6">>)
    /\ tags = { <<"b">> }

\* C16 (Tag well-formedness): every tag extraction produces is non-empty,
\* is its own lower-casing, has no white space at either end and holds no
\* comma; no tag occurs twice in the list that is returned; and "a, A, a "
\* yields exactly {"a"}.
C16_WellFormedTags ==
    step = "tags" =>
        /\ \A t \in tags :
              /\ t # <<>>
              /\ lower(t) = t
              /\ strip(t) = t
              /\ \A i \in 1..Len(t) : t[i] # ","
        /\ \A l \in ListsOf(tags) :
              /\ Len(l) = Cardinality(tags)
              /\ \A i, j \in 1..Len(l) : i < j => l[i] # l[j]
        /\ metadata_text = TextAAa => tags = { <<"a">> }

C16_Witness ==
    /\ step = "tags"
    /\ metadata_text = TextAAa
    /\ tags = { <<"a">> }

\* C18 (Entry freshness): after a scan has returned, every file it observed
\* has an entry in the persisted Index whose mtime is the modification time
\* the scan read for the file and whose tags are the tags the scan returned
\* for it, whether the file was extracted, failed, or taken from the cache.
C18_EntryFresh ==
    pc = "done" =>
        \A p \in Observed(root_dir) :
            /\ cacheFile.kind = "json"
            /\ p \in DOMAIN cacheFile.data
            /\ cacheFile.data[p].mtime = fs[p].mtime
            /\ cacheFile.data[p].tags = TagsReturned(p)

C18_Witness ==
    /\ pc = "done"
    /\ "pics/a.png" \in Failed
    /\ "pics/b.png" \in Observed(root_dir) \ extracted
    /\ "pics/a.png" \in DOMAIN before.cacheFile.data
    /\ before.cacheFile.data["pics/a.png"].mtime # fs["pics/a.png"].mtime
    /\ cacheFile.data["pics/a.png"] = [tags |-> <<>>, mtime |-> fs["pics/a.png"].mtime]
    /\ Len(cacheFile.data["pics/b.png"].tags) = 2
    /\ cacheFile.data["pics/b.png"].tags = TagsReturned("pics/b.png")

\* C19 (Retry on change): a file whose failed extraction is cached is
\* extracted again by the first scan that finds it with another modification
\* time, later or earlier, and when that extraction succeeds the entry holds
\* the extracted tags instead of none; a scan that finds it with the mtime
\* the failure is cached under does not extract it.
C19_RetryOnChange ==
    pc = "done" =>
        \A p \in Observed(root_dir) :
            before.negCached[p] # 0 =>
                IF fs[p].mtime # before.negCached[p]
                THEN /\ p \in extracted
                     /\ Readable(fs[p]) =>
                           /\ cacheFile.data[p].tags # <<>>
                           /\ Elems(cacheFile.data[p].tags) =
                                 extract_tags(JoinValues(TextValues(fs[p].meta)))
                           /\ cacheFile.data[p].mtime = fs[p].mtime
                           /\ negCached[p] = 0
                ELSE /\ p \notin extracted
                     /\ cacheFile.data[p].tags = <<>>

C19_Witness ==
    /\ pc = "done"
    /\ \E p \in Observed(root_dir) :
          /\ before.negCached[p] # 0
          /\ fs[p].mtime < before.negCached[p]
          /\ Readable(fs[p])
          /\ before.cacheFile.data[p].tags = <<>>
          /\ p \in extracted
          /\ Len(cacheFile.data[p].tags) = 2

\* the tags a scan without any cached entry finds for the file at p
ColdTags(p) ==
    IF Readable(fs[p]) THEN extract_tags(JoinValues(TextValues(fs[p].meta))) ELSE {}

\* C20 (A damaged cache is a cold cache): a scan that starts with a cache
\* file that does not parse does what a scan that starts without a cache
\* file does, which the files on disk alone determine: it extracts every
\* observed file, returns them in the order of the walk with the tags
\* extracted and the sorted union as vocabulary, and leaves a persisted Index
\* with exactly the observed files, each with the tags returned and its
\* mtime; nothing the damaged file held is in it.
C20_DamagedIsCold ==
    (pc = "done" /\ before.cacheFile.kind \in {"corrupt", "missing"}) =>
        /\ extracted = Observed(root_dir)
        /\ [i \in 1..Len(result.images) |-> result.images[i].path] = os_walk(root_dir)
        /\ \A p \in Observed(root_dir) : Elems(TagsReturned(p)) = ColdTags(p)
        /\ result.all_tags = sorted(UNION {ColdTags(p) : p \in Observed(root_dir)})
        /\ cacheFile.kind = "json"
        /\ DOMAIN cacheFile.data = Observed(root_dir)
        /\ \A p \in Observed(root_dir) :
              /\ cacheFile.data[p].tags = TagsReturned(p)
              /\ cacheFile.data[p].mtime = fs[p].mtime

C20_Witness ==
    /\ pc = "done"
    /\ before.cacheFile.kind = "corrupt"
    /\ \E q \in DOMAIN before.cacheFile.data : q \notin DOMAIN cacheFile.data
    /\ \E p \in Observed(root_dir) :
          /\ p \in DOMAIN before.cacheFile.data
          /\ before.cacheFile.data[p] = [tags |-> <<>>, mtime |-> fs[p].mtime]
          /\ p \in extracted
          /\ Len(TagsReturned(p)) = 2

\* the files at any depth under the root whose name ends with ".png", the
\* letters compared without regard to case
PngUnderRoot ==
    {f \in tree :
        /\ SubSeq(f.dir, 1, Len(WalkRoot)) = WalkRoot
        /\ Len(f.name) >= 4
        /\ \A k \in 1..4 : LowerChar(f.name[Len(f.name) - 4 + k]) = DotPng[k]}

\* C21 (Extension filter): the scan observes a file if and only if it lies
\* at any depth under the root and its name ends with ".png" compared
\* case-insensitively, each such file once; no other file gets an Index entry
\* or appears in the returned images.
C21_ExtensionFilter ==
    /\ walkPc \in {"walked", "stored"} =>
          /\ Elems(walked) = PngUnderRoot
          /\ Len(walked) = Cardinality(PngUnderRoot)
    /\ walkPc = "stored" =>
          /\ Elems(walk_images) = PngUnderRoot
          /\ walk_keys = PngUnderRoot

C21_Witness ==
    /\ walkPc = "stored"
    /\ tree = { [dir |-> <<"pics", "sub", "deep">>, name |-> <<"B", ".", "P", "N", "G">>],
                [dir |-> <<"pics">>, name |-> <<"d", ".", "p", "n", "g", ".", "b", "a", "k">>] }
    /\ walk_keys = { [dir |-> <<"pics", "sub", "deep">>, name |-> <<"B", ".", "P", "N", "G">>] }

\* C22: a cache file of the wrong shape never makes a scan fail: whatever
\* JSON value CACHE_FILE holds, no exception of the lookup of lines 124-128
\* or of the store of line 173 leaves the scan.
C22_WrongShapeTolerated ==
    ~(pc = "raised" /\ result.error \in {"lookup", "store"})

\* C23: a scan that ends with an exception before its final save leaves
\* CACHE_FILE exactly as it was when the scan started: nothing was written,
\* and the entries extracted in that scan are not in the file.
C23_NoPartialFlush ==
    pc = "raised" => /\ cacheFile = before.cacheFile
                     /\ saves = 0

\* a file vanished after another had been extracted and stored in cache_dict
C23_Witness ==
    /\ pc = "raised"
    /\ result.error = "getmtime"
    /\ extracted # {}
    /\ cacheFile = MissingFile
    /\ DOMAIN cache_dict = extracted

\* FAVORITES_JSON holds exactly the set S
FileHolds(S) ==
    /\ favFile.exists
    /\ FavList(favFile.text).ok
    /\ Elems(FavList(favFile.text).value) = S
    /\ Len(FavList(favFile.text).value) = Cardinality(S)

SymDiff(S, n) == (S \ {n}) \cup ({n} \ S)

\* C24: a toggle request with name n that has returned has changed
\* favorites_set to its symmetric difference with {n} and left the favorites
\* file holding exactly that set; after any sequence of toggles a name is a
\* favorite iff it was toggled an odd number of times relative to the set
\* the process started with.
C24_ToggleWriteThrough ==
    thr["t1"].pc = "returned" =>
        /\ favorites_set = SymDiff(thr["t1"].prev, thr["t1"].name)
        /\ FileHolds(favorites_set)
        /\ \A n \in FavNames :
              (n \in favorites_set) <=> ((n \in fav0) # (parity[n] = 1))

\* a favorite of the start has been toggled off, another name on and off
C24_Witness ==
    /\ thr["t1"].pc = "returned"
    /\ fav0 = {<<"a">>}
    /\ favorites_set = {}
    /\ thr["t1"].name = <<"b">>
    /\ parity = [n \in FavNames |-> IF n = <<"a">> THEN 1 ELSE 0]
    /\ favFile.text = <<"[", "]">>

\* C25: load_favorites never raises; it gives the empty set for a missing
\* file and for a content that json.load or set() refuses, the set of the
\* stored names otherwise; and a load after a save gives the saved set.
C25_LoadNeverFails ==
    /\ ~favLoad.raised
    /\ ~favLoad.file.exists => favLoad.value = {}
    /\ (favLoad.file.exists /\ ~SetOfText(favLoad.file.text).ok) => favLoad.value = {}
    /\ (favLoad.file.exists /\ FavList(favLoad.file.text).ok) =>
          favLoad.value = Elems(FavList(favLoad.file.text).value)
    /\ favLoad.saved.is => favLoad.value = favLoad.saved.set

\* the server has started on a file a save of two names wrote
C25_Witness ==
    /\ favLoad.saved.is
    /\ favLoad.value = FavNames
    /\ fav0 = FavNames
    /\ favLoad.file.exists

\* C28: two toggle requests handled by two threads are serializable: once
\* both have ended neither has raised, and favorites_set and the favorites
\* file both hold what the two toggles give one after the other.
C28_TogglesSerializable ==
    (\A t \in Threads : thr[t].pc \in {"returned", "raised"}) =>
        /\ \A t \in Threads : thr[t].pc = "returned"
        /\ favorites_set = SymDiff(SymDiff(fav0, thr["t1"].name), thr["t2"].name)
        /\ FileHolds(favorites_set)

\* p is LORA_DIRECTORY or lies inside it
Inside(p) == p = LORA_DIRECTORY \/ startswith(p, LORA_DIRECTORY \o <<"/">>)

\* C26: a search sent with the favorites sentinel folder = "FAVORITES" is
\* answered, without an error, with exactly the .safetensors files under
\* LORA_DIRECTORY whose base name is a favorite and holds the lower-cased
\* query, sorted by base name.
C26_SearchInsideFavorites ==
    (req.api = "search" /\ req.path = FAVORITES) =>
        /\ resp.status = 200
        /\ Elems(resp.files) = Elems(FavMatches(lower(strip(req.query))))
        /\ \A i, j \in 1..Len(resp.files) :
              i < j => ~StrLess(lower(BaseNoExt(resp.files[j])),
                                lower(BaseNoExt(resp.files[i])))

\* C27: api_preview, api_files and the folder branch of api_search answer
\* 400 for every path that, made absolute, is neither LORA_DIRECTORY nor
\* inside it, and no file outside LORA_DIRECTORY is listed or served.
C27_PathConfinement ==
    req.api \in {"files", "preview", "search"} =>
        /\ ~Inside(abspath(req.path)) => resp.status = 400
        /\ \A f \in Elems(resp.files) : Inside(f)
        /\ resp.served # <<>> => Inside(resp.served)

\* C29: move_to_favorites(idx) with 0 <= idx < len(prompts) removes exactly
\* the item at idx from prompts and appends that item at the end of
\* favorites, the other items keeping their order and the number of items
\* staying the same; for any other idx neither list changes and nothing is
\* saved.
C29_MoveToFavorites ==
    histOp.op = "move_to_favorites" =>
        IF 0 <= histOp.idx /\ histOp.idx < Len(histOp.before.prompts)
        THEN /\ Len(hist_data.prompts) = Len(histOp.before.prompts) - 1
             /\ \A i \in 1..Len(hist_data.prompts) :
                   hist_data.prompts[i] =
                      histOp.before.prompts[IF i <= histOp.idx THEN i ELSE i + 1]
             /\ hist_data.favorites =
                   Append(histOp.before.favorites, histOp.before.prompts[histOp.idx + 1])
             /\ Len(hist_data.prompts) + Len(hist_data.favorites) =
                   Len(histOp.before.prompts) + Len(histOp.before.favorites)
        ELSE /\ hist_data = histOp.before
             /\ histFile = histOp.fileBefore
             /\ ~histOp.saved

\* the middle one of three prompts has been moved by the button of the popup
C29_Witness ==
    /\ histOp.op = "move_to_favorites"
    /\ histOp.via = "popup"
    /\ histOp.idx = 1
    /\ Len(histOp.before.prompts) = 3
    /\ histOp.before.prompts[1] # histOp.before.prompts[2]
    /\ Len(hist_data.favorites) = 1

\* C30: once an operation has changed _data, the history file holds exactly
\* the prompts and favorites of memory, so that a fresh load() gives them
\* back; an operation with an index out of range changes neither memory nor
\* file.
C30_HistoryWriteThrough ==
    /\ histChanged => (histFile.exists /\ load(histFile) = hist_data)
    /\ (/\ histOp.op \in {"remove_prompt", "remove_favorite", "move_to_favorites",
                          "rename_prompt"}
        /\ ~InRange(histOp.idx, IF histOp.fav THEN histOp.before.favorites
                                ELSE histOp.before.prompts))
          => (hist_data = histOp.before /\ histFile = histOp.fileBefore)

\* a new manager has loaded what the last save wrote: MaxHist items, one of
\* them a favorite with a quote in its name
C30_Witness ==
    /\ histChanged
    /\ histOp.op = "load"
    /\ histOp.before = hist_data
    /\ hist_data.prompts # <<>>
    /\ \E i \in 1..Len(hist_data.favorites) : hist_data.favorites[i].name = <<"q", "\"">>
    /\ Len(hist_data.prompts) + Len(hist_data.favorites) = MaxHist

=============================================================================
